---- MODULE Spec2Model ----
(***************************************************************************)
(* devcheck: the finding/rule evaluation engine (internal/checker), the    *)
(* profile filter (internal/profiles), the report summary (internal/models)*)
(* and the scan command that drives them (cmd/scan.go).                    *)
(*                                                                         *)
(* Text is a sequence of one-character strings (or of short chunks that    *)
(* hold no special character); names and codes are strings, built from the *)
(* text by concatenation exactly where the code slices them out.           *)
(***************************************************************************)
EXTENDS Integers, Sequences, FiniteSets, TLC

VARIABLES
    pc,          \* position in runScan / CheckWithOptions
    profile,     \* the active profile (profiles.Get(profileName))
    flags,       \* command-line flags of the scan command
    proj,        \* the project directory: files, their text, directories
    cfg,         \* the loaded *config.Config, or Nil
    artifacts,   \* *models.Artifacts as built by detector.Detect
    opts,        \* checker.Options
    findings,    \* the accumulating []*models.Finding
    rawFindings, \* history: the list CheckWithOptions built before its filter
    returned,    \* history: the list CheckWithOptions returned
    summary,     \* report.Summary
    exitCode     \* the exit code of the process

vars == <<pc, profile, flags, proj, cfg, artifacts, opts, findings,
          rawFindings, returned, summary, exitCode>>

Nil == "nil"

-----------------------------------------------------------------------------
(* internal/models/finding.go *)

SeverityBlocking == "blocking"
SeverityWarning == "warning"
SeverityInfo == "info"

Severities == {SeverityBlocking, SeverityWarning, SeverityInfo}

\* NewFinding(code, severity, title): Title is kept as the tuple of the
\* values formatted into it; Files starts empty.
NewFinding(code, severity, title) ==
    [Code |-> code, Severity |-> severity, Title |-> title, Files |-> <<>>]

WithFile(f, file, line) ==
    [f EXCEPT !.Files = Append(@, [File |-> file, Line |-> line])]

\* (variant: warning ranked with info)
SeverityLevelNoWarning(s) ==
    CASE s = SeverityBlocking -> 3
      [] s = SeverityWarning -> 1
      [] s = SeverityInfo -> 1
      [] OTHER -> 0

SeverityLevel(s) ==
    CASE s = SeverityBlocking -> 3
      [] s = SeverityWarning -> 2
      [] s = SeverityInfo -> 1
      [] OTHER -> 0

-----------------------------------------------------------------------------
(* internal/profiles/profiles.go *)

\* (variant: strict without source scanning)
BuiltinProfilesStrictNoScan ==
    [n \in {"default", "strict", "ci", "minimal", "full"} |->
        [Name |-> n,
         MinSeverity |-> CASE n = "ci" -> SeverityWarning
                           [] n = "minimal" -> SeverityBlocking
                           [] OTHER -> SeverityInfo,
         EnabledChecks |-> <<>>,
         DisabledChecks |-> <<>>,
         EnableSourceScanning |-> (n = "full"),
         IncludeInfo |-> (n \in {"default", "strict", "full"})]]

BuiltinProfiles ==
    [n \in {"default", "strict", "ci", "minimal", "full"} |->
        [Name |-> n,
         MinSeverity |-> CASE n = "ci" -> SeverityWarning
                           [] n = "minimal" -> SeverityBlocking
                           [] OTHER -> SeverityInfo,
         EnabledChecks |-> <<>>,
         DisabledChecks |-> <<>>,
         EnableSourceScanning |-> (n \in {"strict", "full"}),
         IncludeInfo |-> (n \in {"default", "strict", "full"})]]

\* profiles.Get: the registry entry, or Nil for an unknown name
Get(name) ==
    IF name \in DOMAIN BuiltinProfiles THEN BuiltinProfiles[name] ELSE Nil

contains(slice, s) == \E i \in 1..Len(slice) : slice[i] = s

RECURSIVE FilterFrom(_, _, _, _)
\* the loop of FilterFindings from index i on, filtered being the list so far
FilterFrom(p, fl, i, filtered) ==
    IF i > Len(fl) THEN filtered
    ELSE LET f == fl[i] IN
         IF SeverityLevel(f.Severity) < SeverityLevel(p.MinSeverity)
         THEN FilterFrom(p, fl, i + 1, filtered)
         ELSE IF f.Severity = SeverityInfo /\ ~p.IncludeInfo
         THEN FilterFrom(p, fl, i + 1, filtered)
         ELSE IF Len(p.EnabledChecks) > 0 /\ ~contains(p.EnabledChecks, f.Code)
         THEN FilterFrom(p, fl, i + 1, filtered)
         ELSE IF contains(p.DisabledChecks, f.Code)
         THEN FilterFrom(p, fl, i + 1, filtered)
         ELSE FilterFrom(p, fl, i + 1, Append(filtered, f))

\* (variant: the deny-list is not consulted)
FilterFindingsIgnoresDeny(p, fl) ==
    FilterFrom([p EXCEPT !.DisabledChecks = <<>>], fl, 1, <<>>)

\* (variant: the kept findings are grouped by severity, most severe first)
FilterFindingsBySeverity(p, fl) ==
    LET kept == FilterFrom(p, fl, 1, <<>>)
    IN  SelectSeq(kept, LAMBDA f : f.Severity = SeverityBlocking)
        \o SelectSeq(kept, LAMBDA f : f.Severity = SeverityWarning)
        \o SelectSeq(kept, LAMBDA f : f.Severity = SeverityInfo)

FilterFindings(p, fl) == FilterFrom(p, fl, 1, <<>>)

-----------------------------------------------------------------------------
(* Text and paths *)

Space == {" ", "\t"}
Quote == {"\"", "'"}

RECURSIVE Join(_)
\* the string a slice of text denotes
Join(t) == IF t = <<>> THEN "" ELSE Head(t) \o Join(Tail(t))

RECURSIVE TrimLeft(_, _)
TrimLeft(t, cut) ==
    IF t # <<>> /\ Head(t) \in cut THEN TrimLeft(Tail(t), cut) ELSE t

RECURSIVE TrimRight(_, _)
TrimRight(t, cut) ==
    IF t # <<>> /\ t[Len(t)] \in cut
    THEN TrimRight(SubSeq(t, 1, Len(t) - 1), cut) ELSE t

\* strings.Trim(s, cutset) and strings.TrimSpace(s)
Trim(t, cut) == TrimRight(TrimLeft(t, cut), cut)
TrimSpace(t) == Trim(t, Space)

\* index of the first occurrence of c in t, 0 if there is none
IndexOf(t, c) ==
    IF \E i \in 1..Len(t) : t[i] = c
    THEN CHOOSE i \in 1..Len(t) : t[i] = c /\ \A j \in 1..(i - 1) : t[j] # c
    ELSE 0

RECURSIVE Clean(_, _)
\* filepath.Join's lexical cleaning of a component list: "." is dropped and
\* ".." removes the component before it (a leading ".." is kept)
Clean(path, done) ==
    IF path = <<>> THEN done
    ELSE IF Head(path) = "." THEN Clean(Tail(path), done)
    ELSE IF Head(path) = ".." /\ done # <<>> /\ done[Len(done)] # ".."
    THEN Clean(Tail(path), SubSeq(done, 1, Len(done) - 1))
    ELSE Clean(Tail(path), Append(done, Head(path)))

\* filepath.Join(basePath, parts...): paths are component lists relative to
\* basePath
PathJoin(a, b) == Clean(a \o b, <<>>)

\* os.Stat(basePath/path): "ok" with the kind found, or the error of the
\* first component that cannot be walked: ENOENT when it is missing, ENOTDIR
\* when the walk has to go through something that is no directory
Stat(p, path) ==
    LET stuck == {k \in 1..Len(path) :
                     \/ SubSeq(path, 1, k) \notin DOMAIN p.tree
                     \/ k < Len(path) /\ p.tree[SubSeq(path, 1, k)] # "dir"}
    IN  IF stuck = {}
        THEN [err |-> "", kind |-> IF path = <<>> THEN "dir" ELSE p.tree[path]]
        ELSE LET k == CHOOSE i \in stuck : \A j \in stuck : i <= j
             IN  IF SubSeq(path, 1, k) \notin DOMAIN p.tree
                 THEN [err |-> "ENOENT", kind |-> Nil]
                 ELSE [err |-> "ENOTDIR", kind |-> Nil]

\* os.IsNotExist(err)
IsNotExist(st) == st.err = "ENOENT"

\* detector.fileExists: a successful Stat of something that is no directory
fileExists(p, name) ==
    LET st == Stat(p, <<name>>) IN st.err = "" /\ st.kind # "dir"

\* (variant: permissions are not looked at)
ReadableAlways(p, name) ==
    LET st == Stat(p, <<name>>) IN st.err = "" /\ st.kind = "file"

\* os.ReadFile / os.Open of basePath/name succeeds
Readable(p, name) ==
    LET st == Stat(p, <<name>>) IN
    st.err = "" /\ st.kind = "file" /\ name \notin p.unreadable

-----------------------------------------------------------------------------
(* internal/checker/checker.go: environment files *)

RECURSIVE ParseLines(_, _)
\* the scanner loop of parseEnvFile over the remaining lines
ParseLines(lines, result) ==
    IF lines = <<>> THEN result
    ELSE LET line == TrimSpace(Head(lines))
             eq == IndexOf(line, "=")
         IN  IF line = <<>> \/ Head(line) = "#"
             THEN ParseLines(Tail(lines), result)
             ELSE IF eq = 0
             THEN ParseLines(Tail(lines), result)
             ELSE LET key == Join(TrimSpace(SubSeq(line, 1, eq - 1)))
                      value == Join(Trim(TrimSpace(SubSeq(line, eq + 1, Len(line))), Quote))
                  IN  ParseLines(Tail(lines),
                          [k \in DOMAIN result \cup {key} |->
                              IF k = key THEN value ELSE result[k]])

RECURSIVE ParseLinesFirstWins(_, _)
\* (variant: the first occurrence of a key wins)
ParseLinesFirstWins(lines, result) ==
    IF lines = <<>> THEN result
    ELSE LET parsed == ParseLines(<<Head(lines)>>, <<>>)
         IN  ParseLinesFirstWins(Tail(lines),
                 [k \in DOMAIN result \cup DOMAIN parsed |->
                     IF k \in DOMAIN result THEN result[k] ELSE parsed[k]])

\* (variant of parseEnvFile with ParseLinesFirstWins)
parseEnvFileFirstWins(p, name) ==
    IF ~Readable(p, name) THEN <<>> ELSE ParseLinesFirstWins(p.text[name], <<>>)

\* parseEnvFile(filepath.Join(basePath, name)): key -> value, empty when the
\* file cannot be opened
parseEnvFile(p, name) ==
    IF ~Readable(p, name) THEN <<>> ELSE ParseLines(p.text[name], <<>>)

\* the "definedVars" every check collects: the keys of all found env files
DefinedVars(p, a) ==
    UNION {DOMAIN parseEnvFile(p, a.EnvFiles[i].Path) :
              i \in {j \in 1..Len(a.EnvFiles) : a.EnvFiles[j].Found}}

\* (variant: connection strings count as standard)
StandardVarsAndDatabase ==
    {"HOME", "USER", "PATH", "PWD", "SHELL", "TERM", "HOSTNAME", "UID", "GID",
     "DATABASE_URL"}

StandardVars ==
    {"HOME", "USER", "PATH", "PWD", "SHELL", "TERM", "HOSTNAME", "UID", "GID"}

isStandardVar(name) == name \in StandardVars

-----------------------------------------------------------------------------
(* internal/checker/checker.go: checkComposeEnvRefs *)

\* the end of the maximal run of characters outside stop that starts at i
\* (i - 1 when the run is empty)
RECURSIVE RunEnd(_, _, _)
RunEnd(line, i, stop) ==
    IF i <= Len(line) /\ line[i] \notin stop THEN RunEnd(line, i + 1, stop)
    ELSE i - 1

\* one match of \$\{([^}:]+)(?::-[^}]*)?\} starting exactly at i:
\* [ok, name (submatch 1), end (index of the closing brace)]
MatchAt(line, i) ==
    LET NoMatch == [ok |-> FALSE, name |-> "", end |-> i]
    IN  IF ~(i + 1 <= Len(line) /\ line[i] = "$" /\ line[i + 1] = "{")
        THEN NoMatch
        ELSE LET j == RunEnd(line, i + 2, {"}", ":"})
                 k == j + 1
                 name == Join(SubSeq(line, i + 2, j))
             IN  IF j < i + 2 \/ k > Len(line) THEN NoMatch
                 ELSE IF line[k] = "}"
                 THEN [ok |-> TRUE, name |-> name, end |-> k]
                 ELSE IF k + 1 <= Len(line) /\ line[k + 1] = "-"
                 THEN LET m == RunEnd(line, k + 2, {"}"}) + 1
                      IN  IF m <= Len(line)
                          THEN [ok |-> TRUE, name |-> name, end |-> m]
                          ELSE NoMatch
                 ELSE NoMatch

RECURSIVE FindAllFrom(_, _)
\* varRefRegex.FindAllStringSubmatch(line, -1): the names of the leftmost,
\* non-overlapping matches, in order
FindAllFrom(line, i) ==
    IF i > Len(line) THEN <<>>
    ELSE LET m == MatchAt(line, i) IN
         IF m.ok THEN <<m.name>> \o FindAllFrom(line, m.end + 1)
         ELSE FindAllFrom(line, i + 1)

\* (variant: only the first match of a line)
FindAllVarRefsFirstOnly(line) ==
    LET all == FindAllFrom(line, 1)
    IN  IF all = <<>> THEN <<>> ELSE <<Head(all)>>

FindAllVarRefs(line) == FindAllFrom(line, 1)

RECURSIVE EnvRefsInMatches(_, _, _, _)
\* the loop over the matches of one line
EnvRefsInMatches(matches, defined, path, lineNum) ==
    IF matches = <<>> THEN <<>>
    ELSE LET varName == Head(matches)
             rest == EnvRefsInMatches(Tail(matches), defined, path, lineNum)
         IN  IF varName \notin defined /\ ~isStandardVar(varName)
             THEN <<WithFile(NewFinding("ENV001", SeverityBlocking, <<varName>>),
                             path, lineNum)>> \o rest
             ELSE rest

RECURSIVE EnvRefsInLines(_, _, _, _)
\* the scanner loop over the lines of one compose file, lineNum counted from 1
EnvRefsInLines(lines, lineNum, defined, path) ==
    IF lineNum > Len(lines) THEN <<>>
    ELSE EnvRefsInMatches(FindAllVarRefs(lines[lineNum]), defined, path, lineNum)
         \o EnvRefsInLines(lines, lineNum + 1, defined, path)

RECURSIVE EnvRefsInFiles(_, _, _, _)
\* the loop over artifacts.ComposeFiles from index i on
EnvRefsInFiles(p, a, i, defined) ==
    IF i > Len(a.ComposeFiles) THEN <<>>
    ELSE LET composeFile == a.ComposeFiles[i]
             rest == EnvRefsInFiles(p, a, i + 1, defined)
         IN  IF ~composeFile.Found THEN rest
             ELSE IF ~Readable(p, composeFile.Path) THEN rest
             ELSE EnvRefsInLines(p.text[composeFile.Path], 1, defined,
                                 composeFile.Path) \o rest

checkComposeEnvRefs(p, a) == EnvRefsInFiles(p, a, 1, DefinedVars(p, a))

-----------------------------------------------------------------------------
(* internal/models/artifact.go *)

HasEnv(a) == \E i \in 1..Len(a.EnvFiles) : a.EnvFiles[i].Found

HasEnvExample(a) == \E i \in 1..Len(a.EnvExamples) : a.EnvExamples[i].Found

-----------------------------------------------------------------------------
(* Go map iteration: the order of `range m` is unspecified, so a loop over *)
(* a map yields one of the enumerations of its keys.                       *)

MapOrders(S) ==
    {f \in [1..Cardinality(S) -> S] : \A x \in S : \E i \in DOMAIN f : f[i] = x}

\* every concatenation of a list of A with a list of B
Concats(A, B) == {x \o y : x \in A, y \in B}

-----------------------------------------------------------------------------
(* internal/checker/checker.go: checkEnvExample *)

\* (variant: the last found entry)
LastFound(list) ==
    IF \E i \in 1..Len(list) : list[i].Found
    THEN CHOOSE i \in 1..Len(list) :
            list[i].Found /\ \A j \in (i + 1)..Len(list) : ~list[j].Found
    ELSE 0

\* index of the first found entry of a list of artifacts, 0 if none
FirstFound(list) ==
    IF \E i \in 1..Len(list) : list[i].Found
    THEN CHOOSE i \in 1..Len(list) :
            list[i].Found /\ \A j \in 1..(i - 1) : ~list[j].Found
    ELSE 0

\* index of the first found entry named .env or .env.local, 0 if none
FirstPrimary(list) ==
    LET Is(i) == list[i].Found /\ list[i].Path \in {".env", ".env.local"}
    IN  IF \E i \in 1..Len(list) : Is(i)
        THEN CHOOSE i \in 1..Len(list) : Is(i) /\ \A j \in 1..(i - 1) : ~Is(j)
        ELSE 0

\* the findings of checkEnvExample: one list per iteration order of the
\* example's keys
checkEnvExample(p, a) ==
    LET hasExample == HasEnvExample(a)
        hasEnv == HasEnv(a)
        examplePath == a.EnvExamples[FirstFound(a.EnvExamples)].Path
        missing ==
            IF hasExample /\ ~hasEnv
            THEN <<WithFile(NewFinding("ENV003", SeverityWarning, <<>>),
                            examplePath, 0)>>
            ELSE <<>>
        compared ==
            IF hasExample /\ hasEnv /\ FirstPrimary(a.EnvFiles) # 0
            THEN LET envPath == a.EnvFiles[FirstPrimary(a.EnvFiles)].Path
                     exampleVars == parseEnvFile(p, examplePath)
                     envVars == parseEnvFile(p, envPath)
                     keys == {k \in DOMAIN exampleVars : k \notin DOMAIN envVars}
                 IN  {[i \in 1..Len(o) |->
                          NewFinding("ENV002", SeverityWarning,
                                     <<examplePath, o[i], envPath>>)] :
                      o \in MapOrders(keys)}
            ELSE {<<>>}
    IN  Concats({missing}, compared)

-----------------------------------------------------------------------------
(* internal/checker/checker.go: checkComposeDependsOn, extractDependsOn *)

\* a compose file's YAML as yaml.Unmarshal decodes it; ok = FALSE when the
\* file cannot be read or Unmarshal returns an error
ComposeDoc(p, composeFile) ==
    IF composeFile.Found /\ Readable(p, composeFile.Path)
       /\ composeFile.Path \in DOMAIN p.yaml
    THEN p.yaml[composeFile.Path]
    ELSE [ok |-> FALSE, services |-> <<>>]

RECURSIVE MapKeysFrom(_, _)
\* the map-form loop: for i := 0; i < len(node.Content); i += 2
MapKeysFrom(content, i) ==
    IF i > Len(content) THEN <<>>
    ELSE <<content[i].Value>> \o MapKeysFrom(content, i + 2)

RECURSIVE ScalarItemsFrom(_, _)
\* the list-form loop: the values of the scalar items
ScalarItemsFrom(content, i) ==
    IF i > Len(content) THEN <<>>
    ELSE (IF content[i].Kind = "scalar" THEN <<content[i].Value>> ELSE <<>>)
         \o ScalarItemsFrom(content, i + 1)

\* (variant: only the list form is read)
extractDependsOnListOnly(node) ==
    IF node.Kind = "sequence" THEN ScalarItemsFrom(node.Content, 1) ELSE <<>>

extractDependsOn(node) ==
    IF node.Kind = "none" THEN <<>>
    ELSE IF node.Kind = "sequence" THEN ScalarItemsFrom(node.Content, 1)
    ELSE IF node.Kind = "mapping" THEN MapKeysFrom(node.Content, 1)
    ELSE <<>>

RECURSIVE DepsFindings(_, _, _, _)
\* the loop over the deps of one service
DepsFindings(deps, svcName, serviceNames, path) ==
    IF deps = <<>> THEN <<>>
    ELSE LET dep == Head(deps)
             rest == DepsFindings(Tail(deps), svcName, serviceNames, path)
         IN  IF dep \notin serviceNames
             THEN <<WithFile(NewFinding("CMP001", SeverityBlocking,
                                        <<svcName, dep>>), path, 0)>> \o rest
             ELSE rest

RECURSIVE DependsInOrder(_, _, _)
\* the loop over compose.Services in the iteration order `order`
DependsInOrder(services, order, path) ==
    IF order = <<>> THEN <<>>
    ELSE DepsFindings(extractDependsOn(services[Head(order)].DependsOn),
                      Head(order), DOMAIN services, path)
         \o DependsInOrder(services, Tail(order), path)

RECURSIVE DependsInFiles(_, _, _)
DependsInFiles(p, a, i) ==
    IF i > Len(a.ComposeFiles) THEN {<<>>}
    ELSE LET doc == ComposeDoc(p, a.ComposeFiles[i])
             rest == DependsInFiles(p, a, i + 1)
         IN  IF ~doc.ok THEN rest
             ELSE Concats({DependsInOrder(doc.services, o, a.ComposeFiles[i].Path) :
                              o \in MapOrders(DOMAIN doc.services)}, rest)

checkComposeDependsOn(p, a) == DependsInFiles(p, a, 1)

-----------------------------------------------------------------------------
(* internal/checker/checker.go: checkBuildContexts *)

\* context and dockerfile as the type switch on svc.Build leaves them
BuildContext(build) ==
    IF build.type = "string" THEN build.context
    ELSE IF build.type = "map" /\ build.hasContext THEN build.context
    ELSE <<>>

BuildDockerfile(build) ==
    IF build.type = "map" /\ build.hasDockerfile THEN build.dockerfile
    ELSE <<"Dockerfile">>

\* the findings for one service
BuildFindings(p, svcName, build, path) ==
    IF build.type = "nil" THEN <<>>
    ELSE LET context == BuildContext(build)
             dockerfile == BuildDockerfile(build)
         IN  IF context = <<>> THEN <<>>
             ELSE (IF IsNotExist(Stat(p, PathJoin(context, dockerfile)))
                   THEN <<WithFile(NewFinding("BUILD001", SeverityBlocking,
                                              <<svcName>>), path, 0)>>
                   ELSE <<>>)
                  \o
                  (IF IsNotExist(Stat(p, PathJoin(context, <<>>)))
                   THEN <<WithFile(NewFinding("BUILD002", SeverityBlocking,
                                              <<svcName>>), path, 0)>>
                   ELSE <<>>)

RECURSIVE BuildInOrder(_, _, _, _)
BuildInOrder(p, services, order, path) ==
    IF order = <<>> THEN <<>>
    ELSE BuildFindings(p, Head(order), services[Head(order)].Build, path)
         \o BuildInOrder(p, services, Tail(order), path)

RECURSIVE BuildInFiles(_, _, _)
BuildInFiles(p, a, i) ==
    IF i > Len(a.ComposeFiles) THEN {<<>>}
    ELSE LET doc == ComposeDoc(p, a.ComposeFiles[i])
             rest == BuildInFiles(p, a, i + 1)
         IN  IF ~doc.ok THEN rest
             ELSE Concats({BuildInOrder(p, doc.services, o, a.ComposeFiles[i].Path) :
                              o \in MapOrders(DOMAIN doc.services)}, rest)

checkBuildContexts(p, a) == BuildInFiles(p, a, 1)

-----------------------------------------------------------------------------
(* internal/checker/checker.go: addLanguageInfo, checkReadmeHints *)

addLanguageInfo(a) ==
    IF a.DetectedLang # ""
    THEN <<NewFinding("LANG001", SeverityInfo,
                      <<a.DetectedLang, a.PackageManager>>)>>
    ELSE <<>>

\* the table of run commands looked for in the lower-cased README, in order
ReadmePatterns ==
    <<"docker compose up", "docker-compose up", "pnpm install", "pnpm dev",
      "npm install", "npm run dev", "yarn install", "yarn dev", "go run",
      "make run", "make dev">>

\* p.readmeHas: the commands strings.Contains finds in the README text
checkReadmeHints(p, a) ==
    IF ~a.Readme.Found THEN <<>>
    ELSE IF ~Readable(p, a.Readme.Path) THEN <<>>
    ELSE LET hit == {i \in 1..Len(ReadmePatterns) : ReadmePatterns[i] \in p.readmeHas}
         IN  IF hit = {} THEN <<>>
             ELSE LET first == CHOOSE i \in hit : \A j \in hit : i <= j
                  IN  <<NewFinding("HINT001", SeverityInfo, <<ReadmePatterns[first]>>)>>

-----------------------------------------------------------------------------
(* internal/checker/checker.go: checkSourceCodeEnvRefs *)

SourceExtensions ==
    {".go", ".js", ".ts", ".jsx", ".tsx", ".py", ".java", ".cs", ".rs"}

\* the number of extraction patterns in the table
NumSourcePatterns == 7

RECURSIVE OccurrencesOfPattern(_, _)
\* pattern.FindAllStringSubmatch(line, -1) for pattern number pat: a line is
\* the list, left to right, of the accesses [pat, name] written on it
OccurrencesOfPattern(line, pat) ==
    IF line = <<>> THEN <<>>
    ELSE (IF Head(line).pat = pat THEN <<Head(line).name>> ELSE <<>>)
         \o OccurrencesOfPattern(Tail(line), pat)

RECURSIVE LineOccurrences(_, _)
\* for _, pattern := range patterns: the names of one line, pattern by pattern
LineOccurrences(line, pat) ==
    IF pat > NumSourcePatterns THEN <<>>
    ELSE OccurrencesOfPattern(line, pat) \o LineOccurrences(line, pat + 1)

RECURSIVE SourceNamesEveryFile(_, _, _, _, _)
\* (variant: names are remembered by file, not across the scan)
SourceNamesEveryFile(names, defined, relPath, lineNum, st) ==
    IF names = <<>> THEN st
    ELSE LET varName == Head(names) IN
         IF varName \notin defined /\ ~isStandardVar(varName)
            /\ <<relPath, varName>> \notin st.found
         THEN SourceNamesEveryFile(Tail(names), defined, relPath, lineNum,
                 [found |-> st.found \cup {<<relPath, varName>>},
                  out |-> Append(st.out,
                             WithFile(NewFinding("SRC001", SeverityWarning,
                                                 <<varName>>), relPath, lineNum))])
         ELSE SourceNamesEveryFile(Tail(names), defined, relPath, lineNum, st)

RECURSIVE SourceNames(_, _, _, _, _)
\* the loop over the names of one line; st = [found, out]
SourceNames(names, defined, relPath, lineNum, st) ==
    IF names = <<>> THEN st
    ELSE LET varName == Head(names) IN
         IF varName \notin defined /\ ~isStandardVar(varName)
            /\ varName \notin st.found
         THEN SourceNames(Tail(names), defined, relPath, lineNum,
                 [found |-> st.found \cup {varName},
                  out |-> Append(st.out,
                             WithFile(NewFinding("SRC001", SeverityWarning,
                                                 <<varName>>), relPath, lineNum))])
         ELSE SourceNames(Tail(names), defined, relPath, lineNum, st)

RECURSIVE SourceLines(_, _, _, _, _)
SourceLines(lines, i, defined, relPath, st) ==
    IF i > Len(lines) THEN st
    ELSE SourceLines(lines, i + 1, defined, relPath,
             SourceNames(LineOccurrences(lines[i], 1), defined, relPath, i, st))

RECURSIVE SourceWalk(_, _, _, _)
\* filepath.Walk in lexical order over p.sources; a file below a skipped
\* directory is never visited
SourceWalk(files, i, defined, st) ==
    IF i > Len(files) THEN st
    ELSE LET f == files[i] IN
         IF f.inSkippedDir \/ f.ext \notin SourceExtensions \/ ~f.readable
         THEN SourceWalk(files, i + 1, defined, st)
         ELSE SourceWalk(files, i + 1, defined,
                  SourceLines(f.lines, 1, defined, f.path, st))

checkSourceCodeEnvRefs(p, a) ==
    SourceWalk(p.sources, 1, DefinedVars(p, a), [found |-> {}, out |-> <<>>]).out

-----------------------------------------------------------------------------
(* internal/tools/tools.go: CheckVersions, CompareVersions, parseVersion *)

Digits == <<"0", "1", "2", "3", "4", "5", "6", "7", "8", "9">>
IsDigit(c) == \E d \in 1..Len(Digits) : Digits[d] = c
DigitValue(c) == (CHOOSE d \in 1..Len(Digits) : Digits[d] = c) - 1
NonDigit(t) == {t[i] : i \in {j \in 1..Len(t) : ~IsDigit(t[j])}}

RECURSIVE DecimalValue(_, _)
DecimalValue(t, acc) ==
    IF t = <<>> THEN acc
    ELSE DecimalValue(Tail(t), acc * Len(Digits) + DigitValue(Head(t)))

\* n, _ := strconv.Atoi(numStr): 0 on any error
Atoi(t) ==
    IF t # <<>> /\ \A i \in 1..Len(t) : IsDigit(t[i])
    THEN DecimalValue(t, 0) ELSE 0

RECURSIVE Split(_, _)
\* strings.Split(t, sep) for a one-character sep
Split(t, sep) ==
    LET i == IndexOf(t, sep) IN
    IF i = 0 THEN <<t>>
    ELSE <<SubSeq(t, 1, i - 1)>> \o Split(SubSeq(t, i + 1, Len(t)), sep)

parseVersion(v) ==
    LET w == IF v # <<>> /\ Head(v) = "v" THEN Tail(v) ELSE v
        parts == Split(w, ".")
    IN  [i \in 1..Len(parts) |-> Atoi(Trim(parts[i], NonDigit(parts[i])))]

RECURSIVE CompareFrom(_, _, _)
\* the loop of CompareVersions over the segments i = 1, 2, 3
CompareFrom(parts1, parts2, i) ==
    IF i > 3 THEN 0
    ELSE LET p1 == IF i <= Len(parts1) THEN parts1[i] ELSE 0
             p2 == IF i <= Len(parts2) THEN parts2[i] ELSE 0
         IN  IF p1 < p2 THEN -1
             ELSE IF p1 > p2 THEN 1
             ELSE CompareFrom(parts1, parts2, i + 1)

\* (variant: the comparison starts at the second segment)
CompareVersionsFromSecond(v1, v2) == CompareFrom(parseVersion(v1), parseVersion(v2), 2)

CompareVersions(v1, v2) == CompareFrom(parseVersion(v1), parseVersion(v2), 1)

\* (variant: a tool at exactly the minimum version is not satisfied)
VersionCheckStrict(p, tool, minVersion) ==
    LET info == p.tools[tool] IN
    IF ~info.Available
    THEN [Tool |-> tool, Required |-> Join(minVersion), Current |-> "",
          Available |-> FALSE, Satisfied |-> FALSE]
    ELSE [Tool |-> tool, Required |-> Join(minVersion),
          Current |-> Join(info.Version), Available |-> TRUE,
          Satisfied |-> CompareVersions(info.Version, minVersion) > 0]

\* the commands detectToolWithArgs runs: exec.Command for every tool that
\* exec.LookPath finds
DetectToolsRuns(p) == {t \in DOMAIN p.tools : p.tools[t].Available}

\* (variant: a tool without a version counts as not available)
VersionCheckNeedsVersion(p, tool, minVersion) ==
    LET info == p.tools[tool] IN
    IF ~info.Available \/ info.Version = <<>>
    THEN [Tool |-> tool, Required |-> Join(minVersion), Current |-> "",
          Available |-> FALSE, Satisfied |-> FALSE]
    ELSE [Tool |-> tool, Required |-> Join(minVersion),
          Current |-> Join(info.Version), Available |-> TRUE,
          Satisfied |-> CompareVersions(info.Version, minVersion) >= 0]

\* one VersionCheck of tools.CheckVersions; p.tools is what DetectTools finds
VersionCheck(p, tool, minVersion) ==
    LET info == p.tools[tool] IN
    IF ~info.Available
    THEN [Tool |-> tool, Required |-> Join(minVersion), Current |-> "",
          Available |-> FALSE, Satisfied |-> FALSE]
    ELSE [Tool |-> tool, Required |-> Join(minVersion),
          Current |-> Join(info.Version), Available |-> TRUE,
          Satisfied |-> CompareVersions(info.Version, minVersion) >= 0]

\* tools.CheckVersions(requirements): one list per iteration order of the map
CheckVersions(p, requirements) ==
    LET tools == {t \in DOMAIN requirements : requirements[t] # <<>>}
    IN  {[i \in 1..Len(o) |-> VersionCheck(p, o[i], requirements[o[i]])] :
            o \in MapOrders(tools)}

-----------------------------------------------------------------------------
(* internal/checker/checker.go: checkToolVersions *)

RECURSIVE ToolFindings(_)
ToolFindings(checks) ==
    IF checks = <<>> THEN <<>>
    ELSE LET check == Head(checks) IN
         (IF ~check.Available
          THEN <<NewFinding("TOOL001", SeverityBlocking, <<check.Tool>>)>>
          ELSE IF ~check.Satisfied
          THEN <<NewFinding("TOOL002", SeverityWarning,
                            <<check.Tool, check.Current, check.Required>>)>>
          ELSE <<>>)
         \o ToolFindings(Tail(checks))

checkToolVersions(p, versions) ==
    LET fields == <<<<"docker", versions.Docker>>,
                    <<"docker-compose", versions.DockerCompose>>,
                    <<"go", versions.Go>>,
                    <<"node", versions.Node>>,
                    <<"python", versions.Python>>>>
        set == {i \in 1..Len(fields) : fields[i][2] # <<>>}
        requirements == [t \in {fields[i][1] : i \in set} |->
                            fields[CHOOSE i \in set : fields[i][1] = t][2]]
    IN  {ToolFindings(checks) : checks \in CheckVersions(p, requirements)}

-----------------------------------------------------------------------------
(* internal/checker/checker.go: checkCustomRules, checkRequiredEnvVars,    *)
(* filterIgnoredFindings; internal/config: ShouldIgnoreCode                *)

\* a rule's Pattern is [compiles, matches]: whether regexp.Compile accepts
\* it, and the names pattern.MatchString accepts
RECURSIVE CustomFrom(_, _, _)
CustomFrom(rules, i, defined) ==
    IF i > Len(rules) THEN <<>>
    ELSE LET rule == rules[i]
             rest == CustomFrom(rules, i + 1, defined)
         IN  IF ~rule.Required THEN rest
             ELSE IF ~rule.Pattern.compiles THEN rest
             ELSE IF \E name \in defined : name \in rule.Pattern.matches
             THEN rest
             ELSE LET severity ==
                          IF rule.Severity = "blocking" THEN SeverityBlocking
                          ELSE IF rule.Severity = "info" THEN SeverityInfo
                          ELSE SeverityWarning
                  IN  <<NewFinding("CUSTOM-" \o rule.ID, severity, <<rule.ID>>)>>
                      \o rest

\* (variant: rules that are not required are evaluated too)
checkCustomRulesAll(p, a, c) ==
    CustomFrom([i \in 1..Len(c.CustomRules) |->
                   [c.CustomRules[i] EXCEPT !.Required = TRUE]],
               1, DefinedVars(p, a))

checkCustomRules(p, a, c) ==
    IF Len(c.CustomRules) = 0 THEN <<>>
    ELSE CustomFrom(c.CustomRules, 1, DefinedVars(p, a))

RECURSIVE RequiredFrom(_, _, _)
RequiredFrom(required, i, defined) ==
    IF i > Len(required) THEN <<>>
    ELSE (IF required[i] \notin defined
          THEN <<NewFinding("REQ001", SeverityBlocking, <<required[i]>>)>>
          ELSE <<>>)
         \o RequiredFrom(required, i + 1, defined)

\* (variant: the standard variables count as defined)
checkRequiredEnvVarsSkipsStandard(p, a, c) ==
    RequiredFrom(c.RequiredEnvVars, 1, DefinedVars(p, a) \cup StandardVars)

checkRequiredEnvVars(p, a, c) ==
    IF Len(c.RequiredEnvVars) = 0 THEN <<>>
    ELSE RequiredFrom(c.RequiredEnvVars, 1, DefinedVars(p, a))

ShouldIgnoreCode(c, code) ==
    \E i \in 1..Len(c.IgnoreCodes) : c.IgnoreCodes[i] = code

RECURSIVE IgnoreFrom(_, _, _)
IgnoreFrom(fl, i, c) ==
    IF i > Len(fl) THEN <<>>
    ELSE (IF ~ShouldIgnoreCode(c, fl[i].Code) THEN <<fl[i]>> ELSE <<>>)
         \o IgnoreFrom(fl, i + 1, c)

\* (variant: only the first finding with an ignored code is dropped)
filterIgnoredFindingsFirstOnly(fl, c) ==
    LET hits == {i \in 1..Len(fl) : ShouldIgnoreCode(c, fl[i].Code)} IN
    IF hits = {} THEN fl
    ELSE LET first == CHOOSE i \in hits : \A j \in hits : i <= j
         IN  SubSeq(fl, 1, first - 1) \o SubSeq(fl, first + 1, Len(fl))

\* (variant: the ignore list is not applied)
filterIgnoredFindingsOff(fl, c) == fl

filterIgnoredFindings(fl, c) ==
    IF Len(c.IgnoreCodes) = 0 THEN fl ELSE IgnoreFrom(fl, 1, c)

-----------------------------------------------------------------------------
(* internal/detector/detector.go *)

RECURSIVE FoundOnly(_, _)
\* one artifact per name that fileExists finds, in the order of names
FoundOnly(p, names) ==
    IF names = <<>> THEN <<>>
    ELSE (IF fileExists(p, Head(names))
          THEN <<[Path |-> Head(names), Found |-> TRUE]>> ELSE <<>>)
         \o FoundOnly(p, Tail(names))

ComposeCandidates ==
    <<"compose.yaml", "compose.yml", "docker-compose.yaml", "docker-compose.yml",
      "docker-compose.override.yaml", "docker-compose.override.yml">>

detectComposeFiles(p, override) ==
    IF override # "" /\ fileExists(p, override)
    THEN <<[Path |-> override, Found |-> TRUE]>>
    ELSE (IF override # "" THEN <<[Path |-> override, Found |-> FALSE]>> ELSE <<>>)
         \o FoundOnly(p, ComposeCandidates)

EnvCandidates == <<".env", ".env.local", ".env.development", ".env.dev">>
ExampleCandidates == <<".env.example", ".env.sample", ".env.template", "example.env">>

\* strings.Contains(name, "example"), over the file names of the model
ContainsExample(name) == name \in {".env.example", "example.env", "ci.example"}

RECURSIVE SelectOverrides(_, _, _)
\* the overrides that go to EnvExamples (wantExample) or to EnvFiles
SelectOverrides(p, overrides, wantExample) ==
    IF overrides = <<>> THEN <<>>
    ELSE (IF ContainsExample(Head(overrides)) = wantExample
          THEN <<[Path |-> Head(overrides), Found |-> fileExists(p, Head(overrides))]>>
          ELSE <<>>)
         \o SelectOverrides(p, Tail(overrides), wantExample)

detectEnvFiles(p, overrides) ==
    IF Len(overrides) > 0
    THEN [EnvFiles |-> SelectOverrides(p, overrides, FALSE),
          EnvExamples |-> SelectOverrides(p, overrides, TRUE)]
    ELSE [EnvFiles |-> [i \in 1..Len(EnvCandidates) |->
                           [Path |-> EnvCandidates[i],
                            Found |-> fileExists(p, EnvCandidates[i])]],
          EnvExamples |-> FoundOnly(p, ExampleCandidates)]

\* the manifest table: file, language, package manager
ManifestTable ==
    <<<<"package.json", "nodejs", "">>, <<"pnpm-lock.yaml", "nodejs", "pnpm">>,
      <<"yarn.lock", "nodejs", "yarn">>, <<"package-lock.json", "nodejs", "npm">>,
      <<"go.mod", "go", "go mod">>, <<"pyproject.toml", "python", "">>,
      <<"requirements.txt", "python", "pip">>, <<"Pipfile", "python", "pipenv">>,
      <<"poetry.lock", "python", "poetry">>, <<"Cargo.toml", "rust", "cargo">>,
      <<"pom.xml", "java", "maven">>, <<"build.gradle", "java", "gradle">>,
      <<"build.gradle.kts", "java", "gradle">>>>

\* detectManifests (the two glob entries for C# are left out): the language
\* of the first manifest found, the first non-empty package manager found
detectManifests(p) ==
    LET found == {i \in 1..Len(ManifestTable) : fileExists(p, ManifestTable[i][1])}
        withMgr == {i \in found : ManifestTable[i][3] # ""}
        Min(S) == CHOOSE i \in S : \A j \in S : i <= j
    IN  [DetectedLang |-> IF found = {} THEN "" ELSE ManifestTable[Min(found)][2],
         PackageManager |-> IF withMgr = {} THEN "" ELSE ManifestTable[Min(withMgr)][3]]

ReadmeCandidates == <<"README.md", "README.MD", "readme.md", "README.txt", "README">>

\* detectReadme: Found = FALSE stands for the nil *Artifact
detectReadme(p) ==
    LET hit == FoundOnly(p, ReadmeCandidates) IN
    IF hit = <<>> THEN [Path |-> "", Found |-> FALSE] ELSE Head(hit)

Detect(p, composeOverride, envOverrides) ==
    LET env == detectEnvFiles(p, envOverrides)
        man == detectManifests(p)
    IN  [ComposeFiles |-> detectComposeFiles(p, composeOverride),
         EnvFiles |-> env.EnvFiles,
         EnvExamples |-> env.EnvExamples,
         Readme |-> detectReadme(p),
         DetectedLang |-> man.DetectedLang,
         PackageManager |-> man.PackageManager]

-----------------------------------------------------------------------------
(* internal/models: Report.CalculateSummary *)

RECURSIVE CountSeverity(_, _)
CountSeverity(fl, sev) ==
    IF fl = <<>> THEN 0
    ELSE (IF Head(fl).Severity = sev THEN 1 ELSE 0) + CountSeverity(Tail(fl), sev)

\* (variant: info findings are not counted)
CalculateSummaryNoInfo(fl) ==
    [TotalFindings |-> Len(fl),
     BlockingCount |-> CountSeverity(fl, SeverityBlocking),
     WarningCount |-> CountSeverity(fl, SeverityWarning),
     InfoCount |-> 0]

CalculateSummary(fl) ==
    [TotalFindings |-> Len(fl),
     BlockingCount |-> CountSeverity(fl, SeverityBlocking),
     WarningCount |-> CountSeverity(fl, SeverityWarning),
     InfoCount |-> CountSeverity(fl, SeverityInfo)]

-----------------------------------------------------------------------------
(* internal/config *)

\* Config with nil = TRUE stands for a nil *config.Config; ToolVersions.nil
\* for a nil *ToolVersions
NoToolVersions ==
    [nil |-> TRUE, Docker |-> <<>>, DockerCompose |-> <<>>, Go |-> <<>>,
     Node |-> <<>>, Python |-> <<>>]

DefaultConfig ==
    [nil |-> FALSE, CustomRules |-> <<>>, ToolVersions |-> NoToolVersions,
     IgnoreCodes |-> <<>>, RequiredEnvVars |-> <<>>]

NoConfig == [DefaultConfig EXCEPT !.nil = TRUE]

\* config.Load(absPath) as runScan uses it: the file found in the project
\* when it loads, DefaultConfig when there is none or it does not load
LoadConfig(p) ==
    IF p.config.state = "valid" THEN p.config.value ELSE DefaultConfig

NoProfile == [BuiltinProfiles["default"] EXCEPT !.Name = Nil]

NoArtifacts == Detect([tree |-> <<>>], "", <<>>)

NoOptions ==
    [EnableSourceScanning |-> FALSE, Config |-> NoConfig,
     CheckToolVersions |-> FALSE]

NoSummary == CalculateSummary(<<>>)

-----------------------------------------------------------------------------
(* internal/tools: ChecklistReporter; os.Create *)

RECURSIVE Itoa(_)
\* %d
Itoa(n) ==
    IF n < Len(Digits) THEN Digits[n + 1]
    ELSE Itoa(n \div Len(Digits)) \o Digits[(n % Len(Digits)) + 1]

\* the findings of fl with this severity, in order
OfSeverity(fl, sev) == SelectSeq(fl, LAMBDA f : f.Severity = sev)

\* the lines ChecklistReporter.Report writes: the heading, one item per
\* blocking finding, then per warning, then per info finding, and the totals
Checklist(fl) ==
    LET Items(sev) == [i \in 1..Len(OfSeverity(fl, sev)) |->
                          <<"- [ ] ", OfSeverity(fl, sev)[i].Code>>]
    IN  <<<<"# Fix Checklist">>>>
        \o Items(SeverityBlocking) \o Items(SeverityWarning) \o Items(SeverityInfo)
        \o <<<<"**Total:** ", Itoa(Len(OfSeverity(fl, SeverityBlocking))),
               Itoa(Len(OfSeverity(fl, SeverityWarning))),
               Itoa(Len(OfSeverity(fl, SeverityInfo)))>>>>

\* os.Create(path) succeeds: the parent is a directory and path is not one
CanCreate(p, path) ==
    /\ path # <<>>
    /\ Stat(p, SubSeq(path, 1, Len(path) - 1)).err = ""
    /\ Stat(p, SubSeq(path, 1, Len(path) - 1)).kind = "dir"
    /\ Stat(p, path).err # "" \/ Stat(p, path).kind = "file"
    /\ Len(path) = 1 => path[1] \notin p.readonly

\* the project after os.Create(path) and the writes of `lines` to it
Create(p, path, lines) ==
    [p EXCEPT !.tree = (path :> "file") @@ @,
              !.text = IF Len(path) = 1 THEN (path[1] :> lines) @@ @ ELSE @]

-----------------------------------------------------------------------------
(* cmd/scan.go: runScan, and checker.Check as the tests call it *)

Done(code) == pc' = "done" /\ exitCode' = code

\* profile := profiles.Get(profileName); os.Exit(2) when it is nil
ResolveProfile ==
    /\ pc = "start" /\ flags.entry = "scan"
    /\ IF flags.profileName \in DOMAIN BuiltinProfiles
       THEN /\ profile' = BuiltinProfiles[flags.profileName]
            /\ pc' = "path" /\ UNCHANGED exitCode
       ELSE Done(2) /\ UNCHANGED profile
    /\ UNCHANGED <<flags, proj, cfg, artifacts, opts, findings, rawFindings, returned, summary>>

\* os.Stat(absPath); os.Exit(2) when it fails
CheckPath ==
    /\ pc = "path"
    /\ IF proj.pathExists THEN pc' = "config" /\ UNCHANGED exitCode ELSE Done(2)
    /\ UNCHANGED <<profile, flags, proj, cfg, artifacts, opts, findings,
                   rawFindings, returned, summary>>

\* the config: --config must load (os.Exit(2) otherwise); without the flag
\* a project config that does not load is replaced by the default
LoadConfigStep ==
    /\ pc = "config"
    /\ IF flags.configFile
       THEN IF proj.explicitConfig.state = "valid"
            THEN /\ cfg' = proj.explicitConfig.value
                 /\ pc' = "detect" /\ UNCHANGED exitCode
            ELSE Done(2) /\ UNCHANGED cfg
       ELSE cfg' = LoadConfig(proj) /\ pc' = "detect" /\ UNCHANGED exitCode
    /\ UNCHANGED <<profile, flags, proj, artifacts, opts, findings, rawFindings, returned,
                   summary>>

DetectArtifacts ==
    /\ pc = "detect"
    /\ artifacts' = Detect(proj, flags.composeFile, flags.envFiles)
    /\ pc' = "options"
    /\ UNCHANGED <<profile, flags, proj, cfg, opts, findings, rawFindings, returned,
                   summary, exitCode>>

BuildOptions ==
    /\ pc = "options"
    /\ opts' = [EnableSourceScanning |-> profile.EnableSourceScanning,
                Config |-> cfg,
                CheckToolVersions |-> flags.checkToolVersions]
    /\ pc' = "composeEnv"
    /\ UNCHANGED <<profile, flags, proj, cfg, artifacts, findings, rawFindings, returned,
                   summary, exitCode>>

\* the tests' entry: Detect(basePath, "", nil), then Check = CheckWithOptions
\* with Options{}
CallCheck ==
    /\ pc = "start" /\ flags.entry = "Check"
    /\ artifacts' = Detect(proj, "", <<>>)
    /\ opts' = NoOptions
    /\ pc' = "composeEnv"
    /\ UNCHANGED <<profile, flags, proj, cfg, findings, rawFindings, returned, summary,
                   exitCode>>

\* one `findings = append(findings, check(...)...)` of CheckWithOptions
Appends(at, next, results) ==
    /\ pc = at
    /\ \E r \in results : findings' = findings \o r
    /\ pc' = next
    /\ UNCHANGED <<profile, flags, proj, cfg, artifacts, opts, rawFindings, returned,
                   summary, exitCode>>

RunComposeEnvRefs ==
    Appends("composeEnv", "envExample", {checkComposeEnvRefs(proj, artifacts)})

RunEnvExample ==
    Appends("envExample", "dependsOn", checkEnvExample(proj, artifacts))

RunComposeDependsOn ==
    Appends("dependsOn", "build", checkComposeDependsOn(proj, artifacts))

RunBuildContexts ==
    Appends("build", "lang", checkBuildContexts(proj, artifacts))

RunLanguageInfo ==
    Appends("lang", "readme", {addLanguageInfo(artifacts)})

RunReadmeHints ==
    Appends("readme", "source", {checkReadmeHints(proj, artifacts)})

RunSourceCodeEnvRefs ==
    Appends("source", "tools",
            IF opts.EnableSourceScanning
            THEN {checkSourceCodeEnvRefs(proj, artifacts)} ELSE {<<>>})

\* the tool check: tools.CheckVersions starts with DetectTools, which runs
\* every command it finds in PATH
RunToolVersions ==
    /\ pc = "tools"
    /\ IF opts.CheckToolVersions /\ ~opts.Config.nil
          /\ ~opts.Config.ToolVersions.nil
       THEN /\ \E r \in checkToolVersions(proj, opts.Config.ToolVersions) :
                  findings' = findings \o r
            /\ proj' = [proj EXCEPT !.spawned = @ \cup DetectToolsRuns(proj)]
       ELSE UNCHANGED <<findings, proj>>
    /\ pc' = "custom"
    /\ UNCHANGED <<profile, flags, cfg, artifacts, opts, rawFindings, returned,
                   summary, exitCode>>

RunCustomRules ==
    Appends("custom", "required",
            IF ~opts.Config.nil
            THEN {checkCustomRules(proj, artifacts, opts.Config)} ELSE {<<>>})

RunRequiredEnvVars ==
    Appends("required", "ignore",
            IF ~opts.Config.nil
            THEN {checkRequiredEnvVars(proj, artifacts, opts.Config)} ELSE {<<>>})

\* the end of CheckWithOptions: the ignore-code filter, then the return to
\* runScan (or to the test that called Check)
FilterIgnored ==
    /\ pc = "ignore"
    /\ rawFindings' = findings
    /\ findings' = IF ~opts.Config.nil
                   THEN filterIgnoredFindings(findings, opts.Config)
                   ELSE findings
    /\ returned' = findings'
    /\ IF flags.entry = "scan" THEN pc' = "profile" /\ UNCHANGED exitCode
       ELSE Done(0)
    /\ UNCHANGED <<profile, flags, proj, cfg, artifacts, opts, summary>>

\* findings = profile.FilterFindings(findings)
ProfileFilter ==
    /\ pc = "profile"
    /\ findings' = FilterFindings(profile, findings)
    /\ pc' = "summary"
    /\ UNCHANGED <<profile, flags, proj, cfg, artifacts, opts, rawFindings, returned,
                   summary, exitCode>>

\* report.CalculateSummary()
Summarize ==
    /\ pc = "summary"
    /\ summary' = CalculateSummary(findings)
    /\ pc' = "fixlist"
    /\ UNCHANGED <<profile, flags, proj, cfg, artifacts, opts, findings,
                   rawFindings, returned, exitCode>>

\* the --fix-list block: os.Create truncates or creates the file and the
\* checklist is written to it; os.Exit(2) when the file cannot be created
GenerateFixList ==
    /\ pc = "fixlist"
    /\ IF flags.generateFixList = <<>>
       THEN pc' = "exit" /\ UNCHANGED <<proj, exitCode>>
       ELSE IF CanCreate(proj, flags.generateFixList)
       THEN /\ proj' = Create(proj, flags.generateFixList, Checklist(findings))
            /\ pc' = "exit" /\ UNCHANGED exitCode
       ELSE Done(2) /\ UNCHANGED proj
    /\ UNCHANGED <<profile, flags, cfg, artifacts, opts, findings, rawFindings,
                   returned, summary>>

\* exit code handling
Exit ==
    /\ pc = "exit"
    /\ IF flags.strictMode /\ summary.BlockingCount > 0 THEN Done(1) ELSE Done(0)
    /\ UNCHANGED <<profile, flags, proj, cfg, artifacts, opts, findings,
                   rawFindings, returned, summary>>

Next ==
    \/ ResolveProfile \/ CheckPath \/ LoadConfigStep \/ DetectArtifacts
    \/ BuildOptions \/ CallCheck
    \/ RunComposeEnvRefs \/ RunEnvExample \/ RunComposeDependsOn
    \/ RunBuildContexts \/ RunLanguageInfo \/ RunReadmeHints
    \/ RunSourceCodeEnvRefs \/ RunToolVersions \/ RunCustomRules
    \/ RunRequiredEnvVars \/ FilterIgnored \/ ProfileFilter \/ Summarize
    \/ GenerateFixList \/ Exit

-----------------------------------------------------------------------------
(* The projects and command lines the scan is run on *)

\* the longest ignore_codes list
MaxIgnore == 1

Tool(available, version) == [Available |-> available, Version |-> version]

NoTools ==
    [t \in {"docker", "docker-compose", "go", "node", "python"} |-> Tool(FALSE, <<>>)]

Scalar(v) == [Kind |-> "scalar", Value |-> v]
NoNode == [Kind |-> "none", Content |-> <<>>]
ListOf(names) ==
    [Kind |-> "sequence", Content |-> [i \in 1..Len(names) |-> Scalar(names[i])]]
\* a mapping whose keys are names and whose values are condition mappings
MappingOf(names) ==
    [Kind |-> "mapping",
     Content |-> [i \in 1..(2 * Len(names)) |->
                     IF i % 2 = 1 THEN Scalar(names[(i + 1) \div 2])
                     ELSE [Kind |-> "mapping", Value |-> ""]]]

NoBuild ==
    [type |-> "nil", context |-> <<>>, hasContext |-> FALSE,
     dockerfile |-> <<>>, hasDockerfile |-> FALSE]
BuildString(context) == [NoBuild EXCEPT !.type = "string", !.context = context]
BuildObject(context, dockerfile) ==
    [type |-> "map", context |-> context, hasContext |-> TRUE,
     dockerfile |-> dockerfile, hasDockerfile |-> TRUE]

Service(dependsOn, build) == [DependsOn |-> dependsOn, Build |-> build]

AbsentConfig == [state |-> "absent", value |-> DefaultConfig]

\* an empty directory with nothing installed; spawned is the set of commands
\* that have been run on the machine since the scan started, readonly the
\* files that cannot be written
EmptyProj ==
    [pathExists |-> TRUE, tree |-> <<>>, unreadable |-> {}, text |-> <<>>,
     yaml |-> <<>>, readmeHas |-> {}, sources |-> <<>>, tools |-> NoTools,
     config |-> AbsentConfig, explicitConfig |-> AbsentConfig, spawned |-> {},
     readonly |-> {}]

\* p with the regular file `name` holding `lines`
WithText(p, name, lines) ==
    [p EXCEPT !.tree = (<<name>> :> "file") @@ @,
              !.text = (name :> lines) @@ @]

\* p with the compose file `name`: its text and what its YAML decodes to
WithCompose(p, name, lines, services) ==
    [WithText(p, name, lines) EXCEPT
        !.yaml = (name :> [ok |-> TRUE, services |-> services]) @@ @]

WithEntry(p, path, kind) == [p EXCEPT !.tree = (path :> kind) @@ @]

\* generateFixList is a path, <<>> when --fix-list is not given
DefaultFlags ==
    [entry |-> "scan", profileName |-> "default", strictMode |-> FALSE,
     checkToolVersions |-> FALSE, configFile |-> FALSE, composeFile |-> "",
     envFiles |-> <<>>, generateFixList |-> <<>>]

\* the state before runScan (or the test) starts on project p with flags f
Start(p, f) ==
    /\ pc = "start"
    /\ proj = p
    /\ flags = f
    /\ profile = NoProfile
    /\ cfg = NoConfig
    /\ artifacts = NoArtifacts
    /\ opts = NoOptions
    /\ findings = <<>>
    /\ rawFindings = <<>>
    /\ returned = <<>>
    /\ summary = NoSummary
    /\ exitCode = 0

(* A Node.js project in which every check has something to report *)

WebCompose ==
    <<<<"D", "B", ":", " ", "$", "{", "A", "}">>,
      <<"$", "{", "B", ":", "-", "x", "}", " ", "$", "{", "HOME", "}">>,
      <<"$", "{", "B", "}">>>>

WebServices ==
    ("web" :> Service(ListOf(<<"cache", "db">>), BuildString(<<".", "web">>)))
    @@ ("db" :> Service(MappingOf(<<"queue">>),
                        BuildObject(<<"api">>, <<"Dockerfile.dev">>)))

WebSources ==
    <<[path |-> "app.js", ext |-> ".js", inSkippedDir |-> FALSE, readable |-> TRUE,
       lines |-> <<<<[pat |-> 1, name |-> "B"]>>,
                   <<[pat |-> 2, name |-> "E"], [pat |-> 1, name |-> "HOME"],
                     [pat |-> 1, name |-> "B"]>>>>]>>

WebTools ==
    [NoTools EXCEPT !["node"] = Tool(TRUE, <<"1", "6", ".", "3", ".", "0">>),
                    !["go"] = Tool(TRUE, <<"1", ".", "2", "1">>)]

WebToolVersions ==
    [nil |-> FALSE, Docker |-> <<"2", "0", ".", "1", "0">>, DockerCompose |-> <<>>,
     Go |-> <<"1", ".", "2", "0">>, Node |-> <<"v", "1", "8">>, Python |-> <<>>]

WebRules ==
    <<[ID |-> "DB", Pattern |-> [compiles |-> TRUE, matches |-> {"DATABASE_URL"}],
       Required |-> TRUE, Severity |-> "blocking"],
      [ID |-> "OPT", Pattern |-> [compiles |-> TRUE, matches |-> {}],
       Required |-> FALSE, Severity |-> "info"]>>

IgnorePool == {"ENV001", "LANG001", "CUSTOM-DB", "REQ001"}

RECURSIVE ListsUpTo(_, _)
\* the lists of at most n elements of S
ListsUpTo(S, n) ==
    IF n = 0 THEN {<<>>}
    ELSE LET shorter == ListsUpTo(S, n - 1)
         IN  shorter \cup {Append(l, x) : l \in shorter, x \in S}

WebConfigs ==
    {[nil |-> FALSE, CustomRules |-> WebRules, ToolVersions |-> WebToolVersions,
      IgnoreCodes |-> ig, RequiredEnvVars |-> req] :
        ig \in ListsUpTo(IgnorePool, MaxIgnore),
        req \in {<<>>, <<"HOME", "A", "B">>}}

WebBase ==
    LET p0 == WithCompose(EmptyProj, "docker-compose.yml", WebCompose, WebServices)
        p1 == WithEntry(WithEntry(WithEntry(p0, <<"api">>, "dir"),
                                  <<"package.json">>, "file"),
                        <<"pnpm-lock.yaml">>, "file")
        p2 == WithText(p1, "README.md", <<>>)
    IN  [p2 EXCEPT !.readmeHas = {"pnpm install", "npm install"},
                   !.sources = WebSources, !.tools = WebTools]

EnvLines == <<<<"A", "=", "1">>>>
DevLines == <<<<"#", "C">>, <<"C", " ", "=", "'", "3", "'">>>>
ExampleLines == <<<<"A", "=">>, <<"B", "=", "x">>, <<"D", "=", "y">>>>

WebProjects ==
    {[(IF ex THEN WithText(IF env = "" THEN WebBase
                           ELSE WithText(WebBase, env,
                                         IF env = ".env" THEN EnvLines ELSE DevLines),
                           ".env.example", ExampleLines)
       ELSE IF env = "" THEN WebBase
       ELSE WithText(WebBase, env, IF env = ".env" THEN EnvLines ELSE DevLines))
      EXCEPT !.config = c, !.explicitConfig = c] :
        env \in {"", ".env", ".env.development"},
        ex \in BOOLEAN,
        c \in {AbsentConfig, [state |-> "invalid", value |-> DefaultConfig]}
              \cup {[state |-> "valid", value |-> v] : v \in WebConfigs}}
    \cup {[EmptyProj EXCEPT !.pathExists = FALSE]}

WebFlags ==
    {[DefaultFlags EXCEPT !.entry = "Check"]}
    \cup {[DefaultFlags EXCEPT !.configFile = TRUE, !.strictMode = s] :
             s \in BOOLEAN}
    \cup {[DefaultFlags EXCEPT !.profileName = n, !.strictMode = s,
                               !.checkToolVersions = TRUE] :
             n \in DOMAIN BuiltinProfiles \cup {"fast"}, s \in BOOLEAN}

Init == \E p \in WebProjects, f \in WebFlags : Start(p, f)

Spec == Init /\ [][Next]_vars

-----------------------------------------------------------------------------
(* The profile filter on its own: any profile, any list of findings *)

\* the longest list of findings handed to the profile filter
MaxFindings == 3

FilterCodes == {"ENV001", "LANG001"}

CodeLists == {<<>>, <<"ENV001">>, <<"LANG001">>, <<"LANG001", "ENV001">>}

FilterPool == {NewFinding(c, sv, <<>>) : c \in FilterCodes, sv \in Severities}

\* the registry entries, and every profile value over FilterCodes (the zero
\* MinSeverity "" included)
FilterProfiles ==
    {BuiltinProfiles[n] : n \in DOMAIN BuiltinProfiles}
    \cup {[Name |-> "", MinSeverity |-> m, EnabledChecks |-> e,
           DisabledChecks |-> d, EnableSourceScanning |-> FALSE,
           IncludeInfo |-> i] :
             m \in Severities \cup {""}, e \in CodeLists, d \in CodeLists,
             i \in BOOLEAN}

\* CheckWithOptions returning any list of findings
CheckReturnsAny ==
    /\ pc = "composeEnv"
    /\ \E l \in ListsUpTo(FilterPool, MaxFindings) :
          findings' = l /\ rawFindings' = l /\ returned' = l
    /\ pc' = "profile"
    /\ UNCHANGED <<profile, flags, proj, cfg, artifacts, opts, summary, exitCode>>

InitFilter ==
    /\ pc = "options"
    /\ proj = EmptyProj
    /\ flags = DefaultFlags
    /\ profile \in FilterProfiles
    /\ cfg = DefaultConfig
    /\ artifacts = NoArtifacts
    /\ opts = NoOptions
    /\ findings = <<>>
    /\ rawFindings = <<>>
    /\ returned = <<>>
    /\ summary = NoSummary
    /\ exitCode = 0

NextFilter == BuildOptions \/ CheckReturnsAny \/ ProfileFilter

SpecFilter == InitFilter /\ [][NextFilter]_vars

Range(l) == {l[i] : i \in 1..Len(l)}

\* s strictly below m in the order blocking > warning > info
StrictlyBelow(s, m) ==
    <<s, m>> \in {<<"info", "warning">>, <<"info", "blocking">>,
                  <<"warning", "blocking">>}

\* the four conditions under which a profile keeps a finding
Keeps(p, f) ==
    /\ ~StrictlyBelow(f.Severity, p.MinSeverity)
    /\ (f.Severity = "info" => p.IncludeInfo)
    /\ (p.EnabledChecks = <<>> \/ f.Code \in Range(p.EnabledChecks))
    /\ f.Code \notin Range(p.DisabledChecks)

\* C1: FilterFindings keeps a finding iff it is not strictly below
\* min_severity, is not an info finding unless include_info, has a listed code
\* when enabled_codes is non-empty, and has no code of disabled_codes: the
\* output is exactly the input's findings that satisfy the four, in order.
C1_FilterKeepsExactly ==
    pc = "summary" =>
        findings = SelectSeq(returned, LAMBDA f : Keeps(profile, f))

\* C1 witness: a profile with an allow-list and a deny-list has kept one
\* finding and dropped another only because its code is on the deny-list
C1_Witness ==
    /\ pc = "summary"
    /\ profile.EnabledChecks # <<>>
    /\ findings # <<>>
    /\ \E i \in 1..Len(returned) :
          /\ returned[i].Code \in Range(profile.DisabledChecks)
          /\ Keeps([profile EXCEPT !.DisabledChecks = <<>>], returned[i])

\* C2: minimal yields exactly the blocking findings, ci exactly the blocking
\* and warning ones, default, strict and full the whole list; the options
\* built from the profile enable source scanning exactly for strict and full.
C2_BuiltinProfiles ==
    (pc = "summary" /\ profile.Name \in DOMAIN BuiltinProfiles) =>
        /\ profile.Name = "minimal" =>
              findings = SelectSeq(returned, LAMBDA f : f.Severity = "blocking")
        /\ profile.Name = "ci" =>
              findings = SelectSeq(returned,
                            LAMBDA f : f.Severity \in {"blocking", "warning"})
        /\ profile.Name \in {"default", "strict", "full"} => findings = returned
        /\ opts.EnableSourceScanning <=> profile.Name \in {"strict", "full"}

\* C2 witness: ci has filtered a list with one finding of each severity down
\* to the blocking and the warning one
C2_Witness ==
    /\ pc = "summary"
    /\ profile.Name = "ci"
    /\ {returned[i].Severity : i \in 1..Len(returned)} = Severities
    /\ Len(findings) = 2

-----------------------------------------------------------------------------
(* The whole scan: the two filters and the order of the report *)

RECURSIVE IsSubseq(_, _)
\* s is t with some elements left out
IsSubseq(s, t) ==
    IF s = <<>> THEN TRUE
    ELSE IF t = <<>> THEN FALSE
    ELSE IF Head(s) = Head(t) THEN IsSubseq(Tail(s), Tail(t))
    ELSE IsSubseq(s, Tail(t))

\* CheckWithOptions has returned
Returned == pc \in {"profile", "summary", "fixlist", "exit"} \/ (pc = "done" /\ exitCode # 2)

\* the profile filter has run
Filtered == pc \in {"summary", "fixlist", "exit"} \/ (pc = "done" /\ flags.entry = "scan" /\ exitCode # 2)

\* C3: with a config, CheckWithOptions returns the raw findings whose code is
\* not in ignore_codes (CUSTOM-<id> codes included), all of them and no
\* other; the profile filter then works on that returned list.
C3_IgnoreThenProfile ==
    /\ (Returned /\ ~opts.Config.nil) =>
           returned = SelectSeq(rawFindings,
                         LAMBDA f : f.Code \notin Range(opts.Config.IgnoreCodes))
    /\ pc = "profile" => findings = returned
    /\ Filtered => findings = SelectSeq(returned, LAMBDA f : Keeps(profile, f))

\* C3 witness: an ignored custom-rule code was dropped from the raw list and
\* the profile filter then dropped more
C3_Witness ==
    /\ pc = "summary"
    /\ "CUSTOM-DB" \in Range(opts.Config.IgnoreCodes)
    /\ \E i \in 1..Len(rawFindings) : rawFindings[i].Code = "CUSTOM-DB"
    /\ Len(returned) < Len(rawFindings)
    /\ Len(findings) < Len(returned)

\* the position of a code's check in CheckWithOptions
CheckOrder(code) ==
    CASE code = "ENV001" -> 1
      [] code \in {"ENV002", "ENV003"} -> 2
      [] code = "CMP001" -> 3
      [] code \in {"BUILD001", "BUILD002"} -> 4
      [] code = "LANG001" -> 5
      [] code = "HINT001" -> 6
      [] code = "SRC001" -> 7
      [] code \in {"TOOL001", "TOOL002"} -> 8
      [] code = "REQ001" -> 10
      [] OTHER -> 9

InCheckOrder(fl) ==
    \A i, j \in 1..Len(fl) : i < j => CheckOrder(fl[i].Code) <= CheckOrder(fl[j].Code)

\* C4: at every point the finding list is in check execution order (ENV001,
\* ENV003/ENV002, CMP001, BUILD001/BUILD002, LANG001, HINT001, SRC001,
\* TOOL001/TOOL002, CUSTOM-<id>, REQ001); the ignore-code filter returns a
\* subsequence of the raw list and the profile filter a subsequence of that.
C4_CheckOrderKept ==
    /\ InCheckOrder(findings)
    /\ Returned => IsSubseq(returned, rawFindings)
    /\ Filtered => IsSubseq(findings, returned)

\* C4 witness: in a final report that both filters have shortened, a warning
\* stands before a blocking finding
C4_Witness ==
    /\ pc = "exit"
    /\ Len(returned) < Len(rawFindings)
    /\ Len(findings) < Len(returned)
    /\ \E i, j \in 1..Len(findings) :
          i < j /\ findings[i].Severity = "warning" /\ findings[j].Severity = "blocking"

\* C6: no ENV001, SRC001 or REQ001 finding is ever produced for a standard
\* variable (HOME, USER, PATH, PWD, SHELL, TERM, HOSTNAME, UID, GID), the
\* required-variable check included.
C6_NoUndefinedFindingForStandardVar ==
    \A i \in 1..Len(findings) :
        findings[i].Code \in {"ENV001", "SRC001", "REQ001"} =>
            findings[i].Title[1] \notin StandardVars

\* C6, the two checks that do exempt the standard variables
C6_RefChecksExemptStandardVars ==
    \A i \in 1..Len(findings) :
        findings[i].Code \in {"ENV001", "SRC001"} =>
            findings[i].Title[1] \notin StandardVars

\* C6 witness: the compose file and the sources both refer to HOME, which no
\* environment file defines, and the scan is past the source check
C6_Witness ==
    /\ pc = "tools"
    /\ opts.EnableSourceScanning
    /\ "HOME" \notin DefinedVars(proj, artifacts)
    /\ \E i \in 1..Len(findings) : findings[i].Code = "SRC001"
    /\ \E i \in 1..Len(findings) : findings[i].Code = "ENV001"

-----------------------------------------------------------------------------
(* checkComposeEnvRefs on compose files written from a pool of fragments *)

\* the most fragments a compose file is written from
MaxRefs == 3

\* the fragments: plain text, the two reference forms, a standard variable,
\* a `:?` form and a bare $A (neither is one of the two forms), a line break
RefFragments ==
    {<<"x", ":", " ">>, <<"$", "{", "A", "}">>,
     <<"$", "{", "B", ":", "-", "d", " ", "e", "}">>,
     <<"$", "{", "HOME", "}">>, <<"$", "{", "A", ":", "?", "e", "}">>,
     <<"$", "A">>, <<"\n">>}

RECURSIVE LinesOf(_, _)
\* the lines of the text that is the fragments frags written after cur
LinesOf(frags, cur) ==
    IF frags = <<>> THEN <<cur>>
    ELSE IF Head(frags) = <<"\n">> THEN <<cur>> \o LinesOf(Tail(frags), <<>>)
    ELSE LinesOf(Tail(frags), cur \o Head(frags))

RefComposeTexts == {LinesOf(fr, <<>>) : fr \in ListsUpTo(RefFragments, MaxRefs)}

RefProjects ==
    {LET p0 == WithCompose(EmptyProj, "docker-compose.yml", t, <<>>)
         p1 == IF second
               THEN WithCompose(p0, "compose.yaml",
                                <<<<"$", "{", "B", "}", "$", "{", "B", "}">>>>, <<>>)
               ELSE p0
         p2 == IF "A" \in env THEN WithText(p1, ".env", EnvLines) ELSE p1
         p3 == IF "B" \in env
               THEN WithText(p2, ".env.development", <<<<"B", "=", "2">>>>) ELSE p2
     IN  p3 :
        t \in RefComposeTexts, second \in BOOLEAN, env \in SUBSET {"A", "B"}}

InitEnvRefs ==
    \E p \in RefProjects : Start(p, [DefaultFlags EXCEPT !.entry = "Check"])

NextEnvRefs == CallCheck \/ RunComposeEnvRefs

SpecEnvRefs == InitEnvRefs /\ [][NextEnvRefs]_vars

\* the regular file `name` is in the project directory
IsFile(name) == <<name>> \in DOMAIN proj.tree /\ proj.tree[<<name>>] = "file"

FoundComposeFiles == {f \in Range(ComposeCandidates) : IsFile(f)}

FoundEnvFiles == {f \in Range(EnvCandidates) : IsFile(f)}

\* a variable name: a run of characters without braces, colon or dollar
NameChar(c) == c \notin {"$", "{", "}", ":", " ", "\n"}

\* an occurrence of ${VAR} or ${VAR:-default} begins at position i of line,
\* VAR ending at position j - 1
RefBetween(line, i, j) ==
    /\ i + 2 < j /\ j <= Len(line)
    /\ line[i] = "$" /\ line[i + 1] = "{"
    /\ \A k \in (i + 2)..(j - 1) : NameChar(line[k])
    /\ \/ line[j] = "}"
       \/ /\ j + 2 <= Len(line) /\ line[j] = ":" /\ line[j + 1] = "-"
          /\ \E e \in (j + 2)..Len(line) : line[e] = "}"

\* the occurrences of a reference to v on a line: their first positions
OccurrencesOf(v, line) ==
    {i \in 1..Len(line) :
        \E j \in 1..Len(line) :
            RefBetween(line, i, j) /\ Join(SubSeq(line, i + 2, j - 1)) = v}

DefinedInSomeEnvFile(v) ==
    \E f \in FoundEnvFiles : v \in DOMAIN parseEnvFile(proj, f)

RefNames == {"A", "B", "HOME"}

-----------------------------------------------------------------------------
(* checkEnvExample on projects with and without each environment file *)

\* the most lines of .env and of .env.example
MaxEnvLines == 2

EnvLinePool ==
    {<<"A", "=", "1">>, <<" ", "B", " ", "=", "\"", "x", "\"">>,
     <<"#", "C", "=", "3">>, <<"C", "=">>}

EnvTexts == ListsUpTo(EnvLinePool, MaxEnvLines)

\* p with the file `name` holding `lines` when `present`
WithOptionalText(p, present, name, lines) ==
    IF present THEN WithText(p, name, lines) ELSE p

ExampleProjects ==
    {WithOptionalText(
        WithOptionalText(
           WithOptionalText(
              WithOptionalText(
                 WithOptionalText(EmptyProj, "env" \in has, ".env", env),
                 "example" \in has, ".env.example", ex),
              "local" \in has, ".env.local", <<<<"B", "=", "l">>>>),
           "development" \in has, ".env.development", DevLines),
        "sample" \in has, ".env.sample", <<<<"D", "=">>>>) :
        env \in EnvTexts, ex \in EnvTexts,
        has \in SUBSET {"env", "example", "local", "development", "sample"}}

InitEnvExample ==
    \E p \in ExampleProjects : Start(p, [DefaultFlags EXCEPT !.entry = "Check"])

NextEnvExample == CallCheck \/ RunComposeEnvRefs \/ RunEnvExample

SpecEnvExample == InitEnvExample /\ [][NextEnvExample]_vars

FoundExamples == {f \in Range(ExampleCandidates) : IsFile(f)}

\* the first found of a list of candidate names
FirstOf(candidates, found) ==
    candidates[CHOOSE i \in 1..Len(candidates) :
                  candidates[i] \in found
                  /\ \A j \in 1..(i - 1) : candidates[j] \notin found]

PrimaryFound == IsFile(".env") \/ IsFile(".env.local")

\* C7: with an example file found and neither .env nor .env.local found,
\* checkEnvExample reports exactly one finding: a warning ENV003 located at
\* the (first found) example file, and no ENV002 - also when .env.development
\* or .env.dev is there.
C7_OneEnv003WithoutPrimary ==
    (pc = "dependsOn" /\ FoundExamples # {} /\ ~PrimaryFound) =>
        /\ Len(findings) = 1
        /\ findings[1].Code = "ENV003" /\ findings[1].Severity = "warning"
        /\ findings[1].Files
              = <<[File |-> FirstOf(ExampleCandidates, FoundExamples), Line |-> 0]>>

\* C7, the case the code does handle: no environment file of any name
C7_OneEnv003WithoutAnyEnvFile ==
    (pc = "dependsOn" /\ FoundExamples # {} /\ FoundEnvFiles = {}) =>
        /\ Len(findings) = 1
        /\ findings[1].Code = "ENV003" /\ findings[1].Severity = "warning"
        /\ findings[1].Files
              = <<[File |-> FirstOf(ExampleCandidates, FoundExamples), Line |-> 0]>>

\* C7 witness: .env.example next to .env.development only, and
\* checkEnvExample has run
C7_Witness ==
    /\ pc = "dependsOn"
    /\ FoundExamples = {".env.example"}
    /\ FoundEnvFiles = {".env.development"}
    /\ findings = <<>>

\* C8: with an example file and a primary file (the first found of .env,
\* .env.local), checkEnvExample reports exactly one warning ENV002 for every
\* key of the first found example file that the primary file lacks, naming
\* the two files and the key, and nothing else - no ENV003.
C8_OneEnv002PerMissingKey ==
    (pc = "dependsOn" /\ FoundExamples # {} /\ PrimaryFound) =>
        LET example == FirstOf(ExampleCandidates, FoundExamples)
            primary == IF IsFile(".env") THEN ".env" ELSE ".env.local"
            missing == DOMAIN parseEnvFile(proj, example)
                       \ DOMAIN parseEnvFile(proj, primary)
        IN  /\ Len(findings) = Cardinality(missing)
            /\ \A k \in 1..Len(findings) :
                  findings[k].Code = "ENV002" /\ findings[k].Severity = "warning"
            /\ \A key \in missing :
                  \E k \in 1..Len(findings) :
                      findings[k].Title = <<example, key, primary>>

\* C8 witness: the example has two keys, the primary file one of them and a
\* third, and one ENV002 is reported
C8_Witness ==
    /\ pc = "dependsOn"
    /\ IsFile(".env.example") /\ IsFile(".env")
    /\ DOMAIN parseEnvFile(proj, ".env.example") = {"A", "B"}
    /\ DOMAIN parseEnvFile(proj, ".env") = {"A", "C"}
    /\ Len(findings) = 1

-----------------------------------------------------------------------------
(* checkComposeDependsOn on manifests with depends_on in either form *)

\* the most names in one depends_on
MaxDeps == 2

DepNames == {"web", "db", "cache"}

DepLists == ListsUpTo(DepNames, MaxDeps)

NoRepeat(l) == \A i, j \in 1..Len(l) : l[i] = l[j] => i = j

\* depends_on absent, a scalar, a list (an item may repeat) or a mapping
DependsOnNodes ==
    {NoNode, Scalar("cache")}
    \cup {ListOf(l) : l \in DepLists}
    \cup {MappingOf(l) : l \in {d \in DepLists : NoRepeat(d)}}

DependsServices ==
    {[n \in {"web"} \cup more |->
         IF n = "web" THEN Service(node, NoBuild)
         ELSE IF n = "db" THEN Service(dbNode, NoBuild)
         ELSE Service(NoNode, NoBuild)] :
        node \in DependsOnNodes,
        dbNode \in {NoNode, ListOf(<<"queue", "web">>), MappingOf(<<"cache">>)},
        more \in SUBSET {"db", "cache"}}

DependsProjects ==
    {LET p0 == WithCompose(EmptyProj, "compose.yml", <<>>, svcs)
     IN  CASE other = "none" -> p0
           [] other = "invalid" ->
                [WithText(p0, "docker-compose.yml", <<>>) EXCEPT
                    !.yaml = ("docker-compose.yml" :> [ok |-> FALSE, services |-> <<>>]) @@ @]
           [] OTHER ->
                WithCompose(p0, "docker-compose.yml", <<>>,
                            "api" :> Service(ListOf(<<"web">>), NoBuild)) :
        svcs \in DependsServices, other \in {"none", "invalid", "valid"}}

InitDependsOn ==
    \E p \in DependsProjects : Start(p, [DefaultFlags EXCEPT !.entry = "Check"])

NextDependsOn == CallCheck \/ RunComposeEnvRefs \/ RunEnvExample \/ RunComposeDependsOn

SpecDependsOn == InitDependsOn /\ [][NextDependsOn]_vars

\* the manifests found that decode
ValidManifests == {f \in FoundComposeFiles : f \in DOMAIN proj.yaml /\ proj.yaml[f].ok}

\* the positions of depends_on that refer to dep, in either form: the items
\* of a list, the keys of a mapping
ReferencesTo(node, dep) ==
    CASE node.Kind = "sequence" ->
            {i \in 1..Len(node.Content) :
                node.Content[i].Kind = "scalar" /\ node.Content[i].Value = dep}
      [] node.Kind = "mapping" ->
            {i \in 1..Len(node.Content) : i % 2 = 1 /\ node.Content[i].Value = dep}
      [] OTHER -> {}

\* the node with a mapping rewritten as the list of its keys
AsList(node) ==
    IF node.Kind = "mapping"
    THEN ListOf([i \in 1..(Len(node.Content) \div 2) |-> node.Content[2 * i - 1].Value])
    ELSE node

\* the project with every depends_on mapping rewritten as a list
WithListForms(p) ==
    [p EXCEPT !.yaml =
        [f \in DOMAIN p.yaml |->
            [ok |-> p.yaml[f].ok,
             services |->
                [n \in DOMAIN p.yaml[f].services |->
                    [p.yaml[f].services[n] EXCEPT !.DependsOn = AsList(@)]]]]]

AllDepNames == DepNames \cup {"queue", "api"}

\* C9: for each found manifest, each service and each name, the CMP001
\* findings naming that service and that target and located at the manifest
\* (line 0) are as many as the depends_on references to the name when it is
\* not a declared service, and none otherwise; every finding is such a
\* blocking CMP001; and the lists of findings are those of the project with
\* every depends_on mapping rewritten as the list of its keys.
C9_OneCmp001PerMissingTarget ==
    pc = "build" =>
        /\ \A k \in 1..Len(findings) :
              /\ findings[k].Code = "CMP001" /\ findings[k].Severity = "blocking"
              /\ Len(findings[k].Files) = 1
              /\ findings[k].Files[1].File \in ValidManifests
              /\ findings[k].Files[1].Line = 0
        /\ \A f \in ValidManifests :
              \A svc \in DOMAIN proj.yaml[f].services, dep \in AllDepNames :
                 Cardinality({k \in 1..Len(findings) :
                                 /\ findings[k].Files[1].File = f
                                 /\ findings[k].Title = <<svc, dep>>})
                 = IF dep \in DOMAIN proj.yaml[f].services THEN 0
                   ELSE Cardinality(ReferencesTo(proj.yaml[f].services[svc].DependsOn, dep))
        /\ Len(findings)
              = Cardinality({<<f, svc, i>> \in
                                ValidManifests \X AllDepNames \X (1..(2 * (MaxDeps + 1))) :
                                /\ svc \in DOMAIN proj.yaml[f].services
                                /\ \E dep \in AllDepNames \ DOMAIN proj.yaml[f].services :
                                      i \in ReferencesTo(proj.yaml[f].services[svc].DependsOn, dep)})
        /\ findings \in checkComposeDependsOn(WithListForms(proj), artifacts)

\* C9 witness: web depends on db and cache through a mapping, cache is not
\* declared, and exactly the one CMP001 for web and cache is reported
C9_Witness ==
    /\ pc = "build"
    /\ DOMAIN proj.yaml = {"compose.yml"}
    /\ DOMAIN proj.yaml["compose.yml"].services = {"web", "db"}
    /\ proj.yaml["compose.yml"].services["web"].DependsOn = MappingOf(<<"db", "cache">>)
    /\ proj.yaml["compose.yml"].services["db"].DependsOn = NoNode
    /\ Len(findings) = 1
    /\ findings[1].Title = <<"web", "cache">>

-----------------------------------------------------------------------------
(* checkBuildContexts on services whose context is absent, a directory or *)
(* a regular file                                                         *)

\* the most services of the manifest
MaxServices == 2

BuildValues ==
    {NoBuild, BuildString(<<"app">>), BuildString(<<".">>),
     BuildObject(<<"app">>, <<"Dockerfile.dev">>),
     BuildObject(<<"lib">>, <<"docker", "Dockerfile">>),
     [BuildObject(<<"app">>, <<>>) EXCEPT !.hasDockerfile = FALSE],
     [BuildObject(<<>>, <<"Dockerfile.dev">>) EXCEPT !.hasContext = FALSE],
     [NoBuild EXCEPT !.type = "other"]}

\* what is on disk: app absent, a directory (with either dockerfile or
\* none) or a regular file; lib/docker absent or with its Dockerfile
BuildTrees ==
    {app @@ lib @@ top :
        app \in {<<>>, <<"app">> :> "file", <<"app">> :> "dir",
                 (<<"app">> :> "dir") @@ (<<"app", "Dockerfile">> :> "file"),
                 (<<"app">> :> "dir") @@ (<<"app", "Dockerfile.dev">> :> "file")},
        lib \in {<<>>, <<"lib">> :> "dir",
                 (<<"lib">> :> "dir") @@ (<<"lib", "docker">> :> "dir")
                    @@ (<<"lib", "docker", "Dockerfile">> :> "file")},
        top \in {<<>>, <<"Dockerfile">> :> "file"}}

ServiceNames == <<"web", "api", "job">>

BuildServices ==
    {[n \in {ServiceNames[i] : i \in 1..Len(b)} |->
         Service(NoNode, b[CHOOSE i \in 1..Len(b) : ServiceNames[i] = n])] :
        b \in ListsUpTo(BuildValues, MaxServices) \ {<<>>}}

BuildProjects ==
    {[WithCompose(EmptyProj, "docker-compose.yml", <<>>, svcs) EXCEPT !.tree = t @@ @] :
        svcs \in BuildServices, t \in BuildTrees}

InitBuild ==
    \E p \in BuildProjects : Start(p, [DefaultFlags EXCEPT !.entry = "Check"])

NextBuild ==
    \/ CallCheck \/ RunComposeEnvRefs \/ RunEnvExample \/ RunComposeDependsOn
    \/ RunBuildContexts

SpecBuild == InitBuild /\ [][NextBuild]_vars

\* the directory (a path from the project directory) exists
DirExists(path) ==
    path = <<>> \/ (path \in DOMAIN proj.tree /\ proj.tree[path] = "dir")

\* something named path exists under existing directories
Exists(path) ==
    /\ path \in DOMAIN proj.tree
    /\ \A k \in 1..(Len(path) - 1) : DirExists(SubSeq(path, 1, k))

\* the services with a build directive that names a context
BuiltServices(f) ==
    {n \in DOMAIN proj.yaml[f].services :
        LET b == proj.yaml[f].services[n].Build
        IN  \/ b.type = "string"
            \/ b.type = "map" /\ b.hasContext}

ContextOf(f, n) == Clean(proj.yaml[f].services[n].Build.context, <<>>)

DockerfileOf(f, n) ==
    LET b == proj.yaml[f].services[n].Build
    IN  IF b.type = "map" /\ b.hasDockerfile THEN b.dockerfile ELSE <<"Dockerfile">>

Reported(code, f, n) ==
    \E k \in 1..Len(findings) :
        /\ findings[k].Code = code /\ findings[k].Severity = "blocking"
        /\ findings[k].Title = <<n>>
        /\ findings[k].Files = <<[File |-> f, Line |-> 0]>>

\* C10: for each service with a build directive (a string: the context, with
\* dockerfile Dockerfile; or an object with context and optional dockerfile),
\* BUILD002 is reported iff the context directory does not exist and BUILD001
\* iff the dockerfile does not exist inside the context, each on its own.
C10_BuildChecksIndependent ==
    pc = "lang" =>
        \A f \in ValidManifests : \A n \in BuiltServices(f) :
            /\ Reported("BUILD002", f, n) <=> ~DirExists(ContextOf(f, n))
            /\ Reported("BUILD001", f, n)
                  <=> ~Exists(ContextOf(f, n) \o DockerfileOf(f, n))

\* C10, where the context is a directory or nothing at all
C10_BuildChecksWhenNoFileAsContext ==
    pc = "lang" =>
        \A f \in ValidManifests : \A n \in BuiltServices(f) :
            (ContextOf(f, n) \notin DOMAIN proj.tree \/ DirExists(ContextOf(f, n))) =>
                /\ Reported("BUILD002", f, n) <=> ~DirExists(ContextOf(f, n))
                /\ Reported("BUILD001", f, n)
                      <=> ~Exists(ContextOf(f, n) \o DockerfileOf(f, n))

\* C10 witness: the context of web is a regular file, and checkBuildContexts
\* has reported nothing
C10_Witness ==
    /\ pc = "lang"
    /\ "web" \in BuiltServices("docker-compose.yml")
    /\ ContextOf("docker-compose.yml", "web") = <<"app">>
    /\ <<"app">> \in DOMAIN proj.tree
    /\ proj.tree[<<"app">>] = "file"
    /\ findings = <<>>

-----------------------------------------------------------------------------
(* The scan with a project config: custom rules and required variables *)

\* runScan up to the end of the checks
NextConfigured ==
    \/ ResolveProfile \/ CheckPath \/ LoadConfigStep \/ DetectArtifacts
    \/ BuildOptions
    \/ RunComposeEnvRefs \/ RunEnvExample \/ RunComposeDependsOn
    \/ RunBuildContexts \/ RunLanguageInfo \/ RunReadmeHints
    \/ RunSourceCodeEnvRefs \/ RunToolVersions \/ RunCustomRules
    \/ RunRequiredEnvVars

\* the most custom rules of a config
MaxRules == 2

RulePattern(compiles, matches) == [compiles |-> compiles, matches |-> matches]

\* rule DB with every severity value (absent and unrecognized included),
\* required or not, or with a pattern that does not compile; rule API
\* likewise with severity info
RulePool ==
    {[ID |-> "DB", Pattern |-> RulePattern(TRUE, {"DATABASE_URL", "DB_HOST"}),
      Required |-> r, Severity |-> sv] :
        r \in BOOLEAN, sv \in {"blocking", "warning", "info", "", "critical"}}
    \cup {[ID |-> "API", Pattern |-> RulePattern(TRUE, {"API_KEY"}),
           Required |-> r, Severity |-> "info"] : r \in BOOLEAN}
    \cup {[ID |-> id, Pattern |-> RulePattern(FALSE, {}),
           Required |-> TRUE, Severity |-> "blocking"] : id \in {"DB", "API"}}

ValidConfig(c) == [state |-> "valid", value |-> c]

CustomProjects ==
    {LET p0 == [EmptyProj EXCEPT
                   !.config = ValidConfig([DefaultConfig EXCEPT !.CustomRules = rules])]
         p1 == WithOptionalText(p0, "env" \in has, ".env",
                                <<<<"DB_HOST", "=", "h">>, <<"PORT", "=", "1">>>>)
         p2 == WithOptionalText(p1, "dev" \in has, ".env.dev",
                                <<<<"API_KEY", "=", "k">>>>)
     IN  p2 :
        rules \in ListsUpTo(RulePool, MaxRules), has \in SUBSET {"env", "dev"}}

InitCustom == \E p \in CustomProjects : Start(p, DefaultFlags)

SpecCustom == InitCustom /\ [][NextConfigured]_vars

\* the names defined in some found environment file
DefinedNames == UNION {DOMAIN parseEnvFile(proj, f) : f \in FoundEnvFiles}

\* the rule is due a finding
Unsatisfied(rule) ==
    /\ rule.Required
    /\ rule.Pattern.compiles
    /\ ~\E v \in DefinedNames : v \in rule.Pattern.matches

RuleSeverity(rule) ==
    IF rule.Severity \in {"blocking", "warning", "info"} THEN rule.Severity
    ELSE "warning"

\* C11: after checkCustomRules, for every rule id and severity the findings
\* coded CUSTOM-<id> with that severity are as many as the required rules of
\* that id whose pattern compiles, that no defined name matches, and whose
\* severity (warning when absent or unrecognized) is that one; there is no
\* other finding, so rules that are not required or do not compile emit
\* nothing and stop nothing.
C11_CustomRuleFindings ==
    pc = "required" =>
        LET rules == opts.Config.CustomRules
            due == {i \in 1..Len(rules) : Unsatisfied(rules[i])}
        IN  /\ Len(findings) = Cardinality(due)
            /\ \A id \in {"DB", "API"}, sv \in Severities :
                  Cardinality({k \in 1..Len(findings) :
                                  /\ findings[k].Code = "CUSTOM-" \o id
                                  /\ findings[k].Severity = sv})
                  = Cardinality({i \in due : rules[i].ID = id /\ RuleSeverity(rules[i]) = sv})

\* C11 witness: a rule whose pattern does not compile, then rule DB with an
\* unrecognized severity and no matching name defined: one warning CUSTOM-DB
C11_Witness ==
    /\ pc = "required"
    /\ Len(opts.Config.CustomRules) = 2
    /\ ~opts.Config.CustomRules[1].Pattern.compiles
    /\ opts.Config.CustomRules[2].Severity = "critical"
    /\ "API_KEY" \in DefinedNames
    /\ Len(findings) = 1
    /\ findings[1].Code = "CUSTOM-DB" /\ findings[1].Severity = "warning"

\* the most names in required_env_vars
MaxRequired == 2

RequiredProjects ==
    {LET p0 == [EmptyProj EXCEPT
                   !.config = ValidConfig([DefaultConfig EXCEPT !.RequiredEnvVars = req])]
         p1 == IF env = "" THEN p0 ELSE WithText(p0, ".env", <<<<env, "=", "1">>>>)
         p2 == WithOptionalText(p1, "dev" \in has, ".env.dev", <<<<"B", "=">>>>)
         p3 == WithOptionalText(p2, "example" \in has, ".env.example",
                                <<<<"C", "=", "3">>>>)
     IN  p3 :
        req \in ListsUpTo({"A", "a", "B", "C", "HOME"}, MaxRequired),
        env \in {"", "A", "a"}, has \in SUBSET {"dev", "example"}}

InitRequired == \E p \in RequiredProjects : Start(p, DefaultFlags)

SpecRequired == InitRequired /\ [][NextConfigured]_vars

\* C12: after checkRequiredEnvVars, for every name the blocking REQ001
\* findings for it are as many as its entries in required_env_vars when the
\* exact name is a key of no found environment file, and none when some found
\* environment file defines it; the check adds nothing else.
C12_Req001PerUndefinedName ==
    pc = "ignore" =>
        LET req == opts.Config.RequiredEnvVars
            reqFindings == SelectSeq(findings, LAMBDA f : f.Code = "REQ001")
        IN  /\ \A k \in 1..Len(reqFindings) : reqFindings[k].Severity = "blocking"
            /\ \A v \in {"A", "a", "B", "C", "HOME"} :
                  Cardinality({k \in 1..Len(reqFindings) : reqFindings[k].Title = <<v>>})
                  = IF v \in DefinedNames THEN 0
                    ELSE Cardinality({i \in 1..Len(req) : req[i] = v})
            /\ Len(reqFindings)
                  = Cardinality({i \in 1..Len(req) : req[i] \notin DefinedNames})

\* C12 witness: a and B are required, .env defines A and .env.dev defines B:
\* one REQ001, for a
C12_Witness ==
    /\ pc = "ignore"
    /\ opts.Config.RequiredEnvVars = <<"a", "B">>
    /\ DefinedNames = {"A", "B"}
    /\ SelectSeq(findings, LAMBDA f : f.Code = "REQ001")
          = <<NewFinding("REQ001", "blocking", <<"a">>)>>

-----------------------------------------------------------------------------
(* The scan with --check-tools: configured minimum versions against the *)
(* installed tools                                                      *)

ToolNames == {"docker", "docker-compose", "go", "node", "python"}

\* the ToolVersions of a config as a function of the tool name
MinimumOf(versions, t) ==
    CASE t = "docker" -> versions.Docker
      [] t = "docker-compose" -> versions.DockerCompose
      [] t = "go" -> versions.Go
      [] t = "node" -> versions.Node
      [] t = "python" -> versions.Python

ToolConfigs ==
    {[DefaultConfig EXCEPT
         !.ToolVersions = [nil |-> FALSE, Docker |-> d, DockerCompose |-> <<>>,
                           Go |-> g, Node |-> n, Python |-> py]] :
        d \in {<<>>, <<"2", "0", ".", "1", "0">>},
        g \in {<<>>, <<"1", ".", "2", "0">>},
        n \in {<<>>, <<"v", "1", "8">>},
        py \in {<<>>, <<"3", ".", "8">>}}
    \cup {DefaultConfig}

\* what is installed: each tool missing, older, equal or newer; docker also
\* present with a version that could not be read
InstalledTools ==
    {[NoTools EXCEPT !["docker"] = d, !["go"] = g, !["node"] = n] :
        d \in {Tool(FALSE, <<>>), Tool(TRUE, <<>>),
               Tool(TRUE, <<"2", "0", ".", "1", "0", ".", "0">>),
               Tool(TRUE, <<"2", "0", ".", "9", ".", "9">>)},
        g \in {Tool(FALSE, <<>>), Tool(TRUE, <<"1", ".", "2", "1">>),
               Tool(TRUE, <<"1", ".", "1", "9", ".", "5">>)},
        n \in {Tool(FALSE, <<>>), Tool(TRUE, <<"1", "6", ".", "3", ".", "0">>),
               Tool(TRUE, <<"1", "8", ".", "0", ".", "0">>)}}

ToolProjects ==
    {[EmptyProj EXCEPT !.config = ValidConfig(c), !.tools = t] :
        c \in ToolConfigs, t \in InstalledTools}

InitTools ==
    \E p \in ToolProjects, check \in BOOLEAN :
        Start(p, [DefaultFlags EXCEPT !.checkToolVersions = check])

SpecTools == InitTools /\ [][NextConfigured]_vars

\* the findings about tool t
ToolReports(code, t) ==
    {k \in 1..Len(findings) : findings[k].Code = code /\ findings[k].Title[1] = t}

\* C13: when the tool check runs, every tool with a non-empty configured
\* minimum has exactly one outcome: one blocking TOOL001 if it is
\* unavailable, one warning TOOL002 if it is available and
\* CompareVersions(current, required) < 0, nothing otherwise; a tool with an
\* empty minimum has no finding.
C13_OneOutcomePerTool ==
    (pc = "custom" /\ opts.CheckToolVersions /\ ~opts.Config.ToolVersions.nil) =>
        \A t \in ToolNames :
            LET min == MinimumOf(opts.Config.ToolVersions, t)
                tool == proj.tools[t]
                n1 == Cardinality(ToolReports("TOOL001", t))
                n2 == Cardinality(ToolReports("TOOL002", t))
            IN  /\ \A k \in ToolReports("TOOL001", t) : findings[k].Severity = "blocking"
                /\ \A k \in ToolReports("TOOL002", t) : findings[k].Severity = "warning"
                /\ IF min = <<>> THEN n1 = 0 /\ n2 = 0
                   ELSE IF ~tool.Available THEN n1 = 1 /\ n2 = 0
                   ELSE IF CompareVersions(tool.Version, min) < 0 THEN n1 = 0 /\ n2 = 1
                   ELSE n1 = 0 /\ n2 = 0

\* C13 witness: docker is missing, go is older than its minimum, node is at
\* exactly its minimum and python has none configured: one TOOL001 and one
\* TOOL002
C13_Witness ==
    /\ pc = "custom" /\ opts.CheckToolVersions /\ ~opts.Config.ToolVersions.nil
    /\ opts.Config.ToolVersions.Docker # <<>> /\ ~proj.tools["docker"].Available
    /\ opts.Config.ToolVersions.Go # <<>>
    /\ proj.tools["go"].Available
    /\ CompareVersions(proj.tools["go"].Version, opts.Config.ToolVersions.Go) < 0
    /\ opts.Config.ToolVersions.Node # <<>>
    /\ proj.tools["node"].Available
    /\ CompareVersions(proj.tools["node"].Version, opts.Config.ToolVersions.Node) = 0
    /\ opts.Config.ToolVersions.Python = <<>>
    /\ Len(findings) = 2

-----------------------------------------------------------------------------
(* CompareVersions and parseVersion, as the tool check applies them to the *)
(* installed docker version and the configured minimum                    *)

\* the most segments of a version
MaxSegments == 4

SegmentPool == {<<"0">>, <<"9">>, <<"1", "0">>}

RECURSIVE Dotted(_)
\* the segments joined by dots
Dotted(segs) ==
    IF Len(segs) = 1 THEN Head(segs)
    ELSE Head(segs) \o <<".">> \o Dotted(Tail(segs))

PlainVersions == {Dotted(l) : l \in ListsUpTo(SegmentPool, MaxSegments) \ {<<>>}}

\* the configured minimums: segments 0 and 9 only
PlainMinimums ==
    {Dotted(l) : l \in ListsUpTo({<<"0">>, <<"9">>}, MaxSegments) \ {<<>>}}

\* versions with text around or inside a segment
DecoratedVersions ==
    {<<"v", "1", "0", ".", "9">>,
     <<"1", "0", ".", "9", "-", "b", "e", "t", "a">>,
     <<"g", "o", "1", "0", ".", "9">>,
     <<"1", "0", ".", "x", "9", ".", "0">>,
     <<"1", "0", ".", "2", "b", "3">>,
     <<"1", "0", ".", "9", ".", "0", "-", "r", "c", "1">>}

VersionProjects ==
    {[EmptyProj EXCEPT
         !.tools = [NoTools EXCEPT !["docker"] = Tool(TRUE, v1)],
         !.config = ValidConfig([DefaultConfig EXCEPT
                        !.ToolVersions = [NoToolVersions EXCEPT !.nil = FALSE,
                                                                !.Docker = v2]])] :
        v1 \in PlainVersions, v2 \in PlainMinimums \cup DecoratedVersions}

\* runScan --check-tools on an otherwise empty project, at the tool check:
\* nothing was found by the checks before it
InitVersions ==
    \E p \in VersionProjects :
        /\ pc = "tools"
        /\ proj = p
        /\ flags = [DefaultFlags EXCEPT !.checkToolVersions = TRUE]
        /\ profile = BuiltinProfiles["default"]
        /\ cfg = p.config.value
        /\ artifacts = Detect(p, "", <<>>)
        /\ opts = [EnableSourceScanning |-> FALSE, Config |-> p.config.value,
                   CheckToolVersions |-> TRUE]
        /\ findings = <<>>
        /\ rawFindings = <<>>
        /\ returned = <<>>
        /\ summary = NoSummary
        /\ exitCode = 0

NextVersions == RunToolVersions \/ RunCustomRules \/ RunRequiredEnvVars

SpecVersions == InitVersions /\ [][NextVersions]_vars

RECURSIVE DotSegments(_, _)
\* the dot-separated segments of v, cur being the segment read so far
DotSegments(v, cur) ==
    IF v = <<>> THEN <<cur>>
    ELSE IF Head(v) = "." THEN <<cur>> \o DotSegments(Tail(v), <<>>)
    ELSE DotSegments(Tail(v), Append(cur, Head(v)))

DecimalDigits == {"0", "1", "2", "3", "4", "5", "6", "7", "8", "9"}

DigitOf(c) ==
    CASE c = "0" -> 0 [] c = "1" -> 1 [] c = "2" -> 2 [] c = "3" -> 3
      [] c = "4" -> 4 [] c = "5" -> 5 [] c = "6" -> 6 [] c = "7" -> 7
      [] c = "8" -> 8 [] c = "9" -> 9

RECURSIVE Number(_)
\* the integer a string of digits denotes (0 for the empty string)
Number(ds) ==
    IF ds = <<>> THEN 0
    ELSE 10 * Number(SubSeq(ds, 1, Len(ds) - 1)) + DigitOf(ds[Len(ds)])

\* only digits and dots, no empty segment
IsPlain(v) ==
    /\ \A i \in 1..Len(v) : v[i] \in DecimalDigits \cup {"."}
    /\ \A i \in 1..Len(DotSegments(v, <<>>)) : DotSegments(v, <<>>)[i] # <<>>

\* segment i of v as an integer, 0 when v has no segment i
SegmentAt(v, i) ==
    LET segs == DotSegments(v, <<>>)
    IN  IF i <= Len(segs) THEN Number(segs[i]) ELSE 0

\* the sign of the first of the first three segments that differs
FirstThreeSign(v1, v2) ==
    LET differ == {i \in 1..3 : SegmentAt(v1, i) # SegmentAt(v2, i)}
    IN  IF differ = {} THEN 0
        ELSE LET i == CHOOSE d \in differ : \A e \in differ : d <= e
             IN  IF SegmentAt(v1, i) < SegmentAt(v2, i) THEN -1 ELSE 1

InstalledDocker == proj.tools["docker"].Version
RequiredDocker == opts.Config.ToolVersions.Docker

\* C14: CompareVersions(v1, v2) is the sign (-1, 0, 1) of the first differing
\* segment among the first three dot-separated integers, a missing segment
\* counting as 0; later segments never matter. The tool check reports
\* TOOL002 exactly when it is negative.
C14_CompareFirstThreeSegments ==
    (pc = "custom" /\ IsPlain(InstalledDocker) /\ IsPlain(RequiredDocker)) =>
        /\ CompareVersions(InstalledDocker, RequiredDocker)
              = FirstThreeSign(InstalledDocker, RequiredDocker)
        /\ (findings # <<>>) <=> FirstThreeSign(InstalledDocker, RequiredDocker) < 0
        /\ \A k \in 1..Len(findings) : findings[k].Code = "TOOL002"

\* C14 witness: 10.9.9.0 installed against a minimum of 9.9.9.9 is newer by
\* its first segment, and 9.9.9.0 against 9.9.9.9 - equal but for the fourth
\* segment - has passed the tool check without a finding
C14_Witness ==
    /\ pc = "custom"
    /\ InstalledDocker = <<"9", ".", "9", ".", "9", ".", "0">>
    /\ RequiredDocker = <<"9", ".", "9", ".", "9", ".", "9">>
    /\ CompareVersions(<<"1", "0", ".", "9", ".", "9", ".", "0">>, RequiredDocker) = 1
    /\ CompareVersions(<<"9">>, <<"9", ".", "0", ".", "9">>) = -1
    /\ findings = <<>>

\* the digit characters of a segment, in order
DigitsOnly(seg) == SelectSeq(seg, LAMBDA c : c \in DecimalDigits)

\* some non-digit character of the segment stands between two digits
HasInnerNonDigit(seg) ==
    \E i, j, k \in 1..Len(seg) :
        /\ i < j /\ j < k
        /\ seg[i] \in DecimalDigits /\ seg[j] \notin DecimalDigits
        /\ seg[k] \in DecimalDigits

\* C15: the value parseVersion gives a segment is the integer formed by the
\* segment's digit characters, wherever its non-digit characters stand
\* (before, after or between the digits).
C15_SegmentValueIsItsDigits ==
    pc = "custom" =>
        LET segs == DotSegments(RequiredDocker, <<>>)
            parts == parseVersion(RequiredDocker)
        IN  /\ Len(parts) = Len(segs)
            /\ \A i \in 1..Len(segs) : parts[i] = Number(DigitsOnly(segs[i]))

\* C15 for the segments whose non-digit characters stand before or after the
\* digits only
C15_OuterNonDigitsStripped ==
    pc = "custom" =>
        LET segs == DotSegments(RequiredDocker, <<>>)
            parts == parseVersion(RequiredDocker)
        IN  /\ Len(parts) = Len(segs)
            /\ \A i \in 1..Len(segs) :
                  ~HasInnerNonDigit(segs[i]) => parts[i] = Number(DigitsOnly(segs[i]))

\* C15 witness: docker 10.9 has passed the tool check against the minimum
\* 10.2b3, whose second segment was read as 0
C15_Witness ==
    /\ pc = "custom"
    /\ RequiredDocker = <<"1", "0", ".", "2", "b", "3">>
    /\ InstalledDocker = <<"1", "0", ".", "9">>
    /\ parseVersion(RequiredDocker) = <<10, 0>>
    /\ findings = <<>>

-----------------------------------------------------------------------------
(* parseEnvFile on .env files written from a pool of lines *)

\* the most lines of the .env file
MaxParseLines == 2

ParseLinePool ==
    {<<>>, <<" ", "\t">>, <<"#", "A", "=", "0">>, <<" ", "#", "B", "=", "0">>,
     <<"A">>, <<"A", "=", "1">>, <<"A", "=", "2", "=", "3">>,
     <<" ", "B", "\t", "=", " ", "x", " ", "y", "\t">>, <<"B", "=">>,
     <<"Q", "=", "\"", "v", "\"">>, <<"Q", "=", "'", "v", "'">>,
     <<"Q", "=", "\"", "'", "v", "'", "\"">>, <<"Q", "=", "\"", "v">>,
     <<"Q", "=", "v", "'">>, <<"Q", "=", "'", "v", "\"">>}

ParseProjects ==
    {WithText(EmptyProj, ".env", lines) : lines \in ListsUpTo(ParseLinePool, MaxParseLines)}

InitParseEnv ==
    \E p \in ParseProjects : Start(p, [DefaultFlags EXCEPT !.entry = "Check"])

SpecParseEnv == InitParseEnv /\ [][NextEnvRefs]_vars

Blank == {" ", "\t"}

\* t without the blanks at its two ends
Strip(t) ==
    LET inked == {i \in 1..Len(t) : t[i] \notin Blank}
    IN  IF inked = {} THEN <<>>
        ELSE SubSeq(t, CHOOSE i \in inked : \A j \in inked : i <= j,
                       CHOOSE i \in inked : \A j \in inked : i >= j)

\* the line assigns: it is not blank, not a comment, and has an =
Assigns(line) ==
    /\ Strip(line) # <<>>
    /\ Head(Strip(line)) # "#"
    /\ \E i \in 1..Len(line) : line[i] = "="

FirstEquals(line) ==
    CHOOSE i \in 1..Len(line) : line[i] = "=" /\ \A j \in 1..(i - 1) : line[j] # "="

KeyOf(line) == Join(Strip(SubSeq(line, 1, FirstEquals(line) - 1)))

\* the value as written, trimmed, quotes still on
RawValueOf(line) == Strip(SubSeq(line, FirstEquals(line) + 1, Len(line)))

EnvText == proj.text[".env"]

\* the last line that assigns key
LastLineOf(key) ==
    CHOOSE i \in 1..Len(EnvText) :
        /\ Assigns(EnvText[i]) /\ KeyOf(EnvText[i]) = key
        /\ \A j \in (i + 1)..Len(EnvText) :
              ~(Assigns(EnvText[j]) /\ KeyOf(EnvText[j]) = key)

HasQuote(t) == \E i \in 1..Len(t) : t[i] \in {"\"", "'"}

\* C16: parseEnvFile's keys are those of the lines that are not blank, not
\* comments and have an =; each key is the trimmed text before the first =
\* and maps to the trimmed text after it (later = included) of the last line
\* that assigns it. (Values written with quotes are left to C17.)
C16_LastAssignmentWins ==
    pc = "envExample" =>
        LET env == parseEnvFile(proj, ".env")
        IN  /\ DOMAIN env
                  = {KeyOf(EnvText[i]) : i \in {j \in 1..Len(EnvText) : Assigns(EnvText[j])}}
            /\ \A key \in DOMAIN env :
                  LET raw == RawValueOf(EnvText[LastLineOf(key)])
                  IN  ~HasQuote(raw) => env[key] = Join(raw)

\* C16 witness: A=1 followed by A=2=3 has been parsed to A -> 2=3
C16_Witness ==
    /\ pc = "envExample"
    /\ EnvText = <<<<"A", "=", "1">>, <<"A", "=", "2", "=", "3">>>>
    /\ parseEnvFile(proj, ".env") = ("A" :> "2=3")

\* the value without one layer of matching quotes, if it has one
Unquoted(raw) ==
    IF Len(raw) >= 2 /\ raw[1] \in {"\"", "'"} /\ raw[Len(raw)] = raw[1]
    THEN SubSeq(raw, 2, Len(raw) - 1)
    ELSE raw

\* C17: the value parseEnvFile stores is the written value without one layer
\* of matching quotes and with nothing else removed: an inner layer stays,
\* and so does a quote character at one end only or unlike the one at the
\* other end.
C17_OneLayerOfQuotes ==
    pc = "envExample" =>
        LET env == parseEnvFile(proj, ".env")
        IN  \A key \in DOMAIN env :
                env[key] = Join(Unquoted(RawValueOf(EnvText[LastLineOf(key)])))

\* C17 for values with at most one layer of matching quotes and no other
\* quote character
C17_SingleLayerStripped ==
    pc = "envExample" =>
        LET env == parseEnvFile(proj, ".env")
        IN  \A key \in DOMAIN env :
                LET raw == RawValueOf(EnvText[LastLineOf(key)])
                IN  ~HasQuote(Unquoted(raw)) => env[key] = Join(Unquoted(raw))

\* C17 witness: Q="'v'" and Q="v have both been parsed to v
C17_Witness ==
    /\ pc = "envExample"
    /\ EnvText = <<<<"Q", "=", "\"", "v">>>>
    /\ parseEnvFile(proj, ".env") = ("Q" :> "v")
    /\ ParseLines(<<<<"Q", "=", "\"", "'", "v", "'", "\"">>>>, <<>>) = ("Q" :> "v")


-----------------------------------------------------------------------------
(* Files that cannot be read, YAML that does not parse, patterns that do not
   compile: a Go project with a config, in which compose.yaml is always
   good and docker-compose.yml, .env and .env.example are each absent,
   good, or broken *)

FileStates == {"absent", "good", "unreadable"}

\* p with the file `name` in state st
WithFileIn(p, st, name, lines) ==
    IF st = "absent" THEN p
    ELSE IF st = "unreadable"
    THEN [WithText(p, name, lines) EXCEPT !.unreadable = @ \cup {name}]
    ELSE WithText(p, name, lines)

GoodCompose == <<<<"$", "{", "A", "}">>>>
GoodServices == "web" :> Service(ListOf(<<"ghost">>), NoBuild)

OtherCompose == <<<<"$", "{", "A", "}", " ", "$", "{", "B", "}">>>>
OtherServices == "api" :> Service(ListOf(<<"nothing">>), BuildString(<<"gone">>))

BadRule ==
    [ID |-> "BAD", Pattern |-> RulePattern(FALSE, {}), Required |-> TRUE,
     Severity |-> "blocking"]
HostRule ==
    [ID |-> "DB", Pattern |-> RulePattern(TRUE, {"DB_HOST"}), Required |-> TRUE,
     Severity |-> "blocking"]

FailOpenRules == {<<HostRule>>, <<BadRule, HostRule>>, <<HostRule, BadRule>>}

FailOpenProjects ==
    {LET p0 == WithEntry(EmptyProj, <<"go.mod">>, "file")
         p1 == WithCompose(p0, "compose.yaml", GoodCompose, GoodServices)
         p2 == IF other = "absent" THEN p1
               ELSE [WithFileIn(p1, IF other = "unreadable" THEN other ELSE "good",
                                "docker-compose.yml", OtherCompose)
                     EXCEPT !.yaml = ("docker-compose.yml" :>
                                         [ok |-> other # "badyaml",
                                          services |-> IF other = "badyaml" THEN <<>>
                                                       ELSE OtherServices]) @@ @]
         p3 == WithFileIn(p2, env, ".env",
                          <<<<"A", "=", "1">>, <<"DB_HOST", "=", "h">>>>)
         p4 == WithFileIn(p3, ex, ".env.example", <<<<"A", "=">>, <<"B", "=">>>>)
     IN  [p4 EXCEPT !.config = ValidConfig([DefaultConfig EXCEPT
                                               !.CustomRules = rules,
                                               !.RequiredEnvVars = <<"R">>])] :
        other \in FileStates \cup {"badyaml"}, env \in FileStates,
        ex \in FileStates, rules \in FailOpenRules}

InitFailOpen == \E p \in FailOpenProjects : Start(p, DefaultFlags)

\* runScan up to the return of CheckWithOptions
NextFailOpen == NextConfigured \/ FilterIgnored

SpecFailOpen == InitFailOpen /\ [][NextFailOpen]_vars

\* the file is there and can be read
CanRead(f) == IsFile(f) /\ f \notin proj.unreadable

\* the returned findings with this code, and those of them citing file f
WithCode(code) == {k \in 1..Len(returned) : returned[k].Code = code}
Citing(code, f) ==
    {k \in WithCode(code) :
        \E n \in 1..Len(returned[k].Files) : returned[k].Files[n].File = f}

-----------------------------------------------------------------------------
(* The whole scan command, and the project with one reference to
   DATABASE_URL: one compose file under any of the detected names, the
   reference with or without a default after some lines without references,
   no environment file and no example, with or without go.mod, no config
   file or one that does not load, --strict or not *)

\* runScan from its entry to its exit
NextScan ==
    \/ NextConfigured \/ FilterIgnored \/ ProfileFilter \/ Summarize
    \/ GenerateFixList \/ Exit

\* the most lines before the reference
MaxLeadingLines == 2

PlainLine == <<"d", "b", ":">>

DatabaseRefs ==
    {<<"$", "{", "D", "A", "T", "A", "B", "A", "S", "E", "_", "U", "R", "L", "}">>,
     <<"u", ":", " ", "$", "{", "D", "A", "T", "A", "B", "A", "S", "E", "_", "U", "R",
       "L", ":", "-", "x", "}">>}

DatabaseProjects ==
    {LET lines == [i \in 1..(lead + 1) |-> IF i <= lead THEN PlainLine ELSE ref]
         p0 == WithCompose(EmptyProj, name, lines, "db" :> Service(NoNode, NoBuild))
         p1 == IF gomod THEN WithEntry(p0, <<"go.mod">>, "file") ELSE p0
     IN  [p1 EXCEPT !.config = c] :
        name \in Range(ComposeCandidates), ref \in DatabaseRefs,
        lead \in 0..MaxLeadingLines, gomod \in BOOLEAN,
        c \in {AbsentConfig, [state |-> "invalid", value |-> DefaultConfig]}}

InitDatabase ==
    \E p \in DatabaseProjects, s \in BOOLEAN :
        Start(p, [DefaultFlags EXCEPT !.strictMode = s])

SpecDatabase == InitDatabase /\ [][NextScan]_vars

\* the findings of the report with this code
ReportCode(code) == {k \in 1..Len(findings) : findings[k].Code = code}

\* C19: when the report of the default profile is rendered for such a
\* project, exactly one of its findings is an ENV001, it is blocking and names
\* DATABASE_URL, none is an ENV003, and the summary counts one blocking
\* finding.
C19_OneBlockingEnv001 ==
    pc = "exit" =>
        /\ Cardinality(ReportCode("ENV001")) = 1
        /\ \A k \in ReportCode("ENV001") :
              /\ findings[k].Severity = SeverityBlocking
              /\ findings[k].Title = <<"DATABASE_URL">>
        /\ ReportCode("ENV003") = {}
        /\ summary.BlockingCount = 1

\* C19 witness: the reference with a default on the third line of
\* compose.yml, reported once on that line
C19_Witness ==
    /\ pc = "exit"
    /\ profile.Name = "default"
    /\ FoundComposeFiles = {"compose.yml"}
    /\ FoundEnvFiles = {} /\ FoundExamples = {}
    /\ Len(proj.text["compose.yml"]) = 3
    /\ Len(proj.text["compose.yml"][3]) > 15
    /\ \E k \in 1..Len(findings) :
          /\ findings[k].Code = "ENV001"
          /\ findings[k].Files = <<[File |-> "compose.yml", Line |-> 3]>>
    /\ summary.BlockingCount = 1


-----------------------------------------------------------------------------
(* The summary of the report, over the scans of Spec *)

\* the report is being rendered, or has been and the exit code is decided
Rendered == pc = "exit" \/ (pc = "done" /\ flags.entry = "scan" /\ exitCode # 2)

\* how many findings of the report have this severity
NumberOf(sev) == Cardinality({k \in 1..Len(findings) : findings[k].Severity = sev})

\* C20: from the moment the report is rendered, its summary counts the final
\* finding list (the one left by the ignore-code filter and then the profile
\* filter): total is its length, blocking, warning and info are the numbers
\* of its findings of that severity, and total is their sum; the exit code is 1
\* exactly when --strict is given and that list has a blocking finding.  Up
\* to the CalculateSummary call the summary is the zero value whatever the
\* findings are: nothing else computes it.
C20_SummaryCountsFinalList ==
    /\ Rendered =>
          /\ findings = FilterFindings(profile, returned)
          /\ summary.TotalFindings = Len(findings)
          /\ summary.BlockingCount = NumberOf(SeverityBlocking)
          /\ summary.WarningCount = NumberOf(SeverityWarning)
          /\ summary.InfoCount = NumberOf(SeverityInfo)
          /\ summary.TotalFindings
                = summary.BlockingCount + summary.WarningCount + summary.InfoCount
          /\ pc = "done" =>
                (exitCode = 1 <=> flags.strictMode /\ NumberOf(SeverityBlocking) > 0)
    /\ pc \notin {"fixlist", "exit", "done"} =>
          /\ summary.TotalFindings = 0 /\ summary.BlockingCount = 0
          /\ summary.WarningCount = 0 /\ summary.InfoCount = 0

\* C20 witness: a report with findings of all three severities, shorter than
\* the list the checks produced, rendered with its summary
C20_Witness ==
    /\ pc = "exit"
    /\ Len(findings) < Len(rawFindings)
    /\ NumberOf(SeverityBlocking) > 0
    /\ NumberOf(SeverityWarning) > 0
    /\ NumberOf(SeverityInfo) > 0
    /\ summary.TotalFindings = Len(findings)


-----------------------------------------------------------------------------
(* cmd/root.go: Execute.  The command line `devcheck scan ...` from the
   arguments on: no, one or too many positional arguments, a known or an
   unknown profile, --strict, --config, --check-tools, --fix-list, on
   projects with no finding, an info finding, a warning, or a blocking
   finding *)

\* the most positional arguments given to `scan`
MaxArgs == 2

\* the flags f with n positional arguments
WithArgs(f, n) == ("numArgs" :> n) @@ f

\* rootCmd.Execute(): cobra validates the arguments of `scan`
\* (Args: cobra.MaximumNArgs(1)) before it calls runScan; on an error
\* Execute prints it and calls os.Exit(1)
Execute ==
    /\ pc = "execute"
    /\ IF flags.numArgs > 1 THEN Done(1) ELSE pc' = "start" /\ UNCHANGED exitCode
    /\ UNCHANGED <<profile, flags, proj, cfg, artifacts, opts, findings,
                   rawFindings, returned, summary>>

NextCommand == Execute \/ NextScan

DockerInstalled ==
    [NoTools EXCEPT !["docker"] = Tool(TRUE, <<"2", "0", ".", "1", "0", ".", "0">>)]

CommandConfigs ==
    {AbsentConfig, [state |-> "invalid", value |-> DefaultConfig],
     ValidConfig([DefaultConfig EXCEPT !.IgnoreCodes = <<"ENV001">>]),
     ValidConfig([DefaultConfig EXCEPT
                     !.ToolVersions = [NoToolVersions EXCEPT
                                          !.nil = FALSE, !.Docker = <<"2", "4">>]])}

CommandProjects ==
    {[p EXCEPT !.explicitConfig = c, !.tools = DockerInstalled] :
        p \in {EmptyProj,
               WithEntry(EmptyProj, <<"go.mod">>, "file"),
               WithText(EmptyProj, ".env.example", <<<<"A", "=">>>>),
               WithEntry(WithCompose(EmptyProj, "compose.yaml", GoodCompose,
                                     "web" :> Service(NoNode, NoBuild)),
                         <<"go.mod">>, "file")},
        c \in CommandConfigs}
    \cup {[EmptyProj EXCEPT !.pathExists = FALSE]}

FixListPaths == {<<>>, <<"fixes.md">>, <<".env.example">>, <<"out", "fixes.md">>}

CommandFlags ==
    {WithArgs([DefaultFlags EXCEPT !.profileName = n, !.strictMode = s,
                                   !.configFile = c, !.checkToolVersions = t,
                                   !.generateFixList = fx], a) :
        n \in {"default", "strict", "minimal", "fast"}, s \in BOOLEAN,
        c \in BOOLEAN, t \in BOOLEAN, fx \in FixListPaths, a \in 0..MaxArgs}

InitCommand ==
    \E p \in CommandProjects, f \in CommandFlags :
        /\ pc = "execute"
        /\ proj = p
        /\ flags = f
        /\ profile = NoProfile
        /\ cfg = NoConfig
        /\ artifacts = NoArtifacts
        /\ opts = NoOptions
        /\ findings = <<>>
        /\ rawFindings = <<>>
        /\ returned = <<>>
        /\ summary = NoSummary
        /\ exitCode = 0

SpecCommand == InitCommand /\ [][NextCommand]_vars

\* the command line has too many arguments
BadArguments == flags.numArgs > 1

\* the inputs runScan rejects: the profile, the path, the --config file
BadInput ==
    \/ flags.profileName \notin {"default", "strict", "ci", "minimal", "full"}
    \/ ~proj.pathExists
    \/ flags.configFile /\ proj.explicitConfig.state # "valid"

\* the --fix-list file cannot be written
BadFixList ==
    /\ flags.generateFixList # <<>>
    /\ Len(flags.generateFixList) > 1
    /\ SubSeq(flags.generateFixList, 1, 1) \notin DOMAIN proj.tree

\* the final report has a blocking finding
HasBlocking == \E k \in 1..Len(findings) : findings[k].Severity = SeverityBlocking

\* C21 as stated: at the end of the command the exit code is 2 for every
\* invalid input (too many arguments included; a fix list that cannot be
\* written is counted as one), otherwise 1 when --strict is set and the
\* final report has a blocking finding, otherwise 0.
C21_ExitCodes ==
    pc = "done" =>
        exitCode = IF BadArguments \/ BadInput \/ BadFixList THEN 2
                   ELSE IF flags.strictMode /\ HasBlocking THEN 1
                   ELSE 0

\* C21 without the arguments: too many arguments exit 1 (Execute), every
\* other invalid input exits 2, a completed scan exits 1 exactly when
\* --strict is set and the final report has a blocking finding, and 0
\* otherwise.
C21_ExitCodesButArguments ==
    pc = "done" =>
        exitCode = IF BadArguments THEN 1
                   ELSE IF BadInput \/ BadFixList THEN 2
                   ELSE IF flags.strictMode /\ HasBlocking THEN 1
                   ELSE 0

\* C21 witness: `scan a b` without --strict has ended with exit code 1
C21_Witness ==
    /\ pc = "done"
    /\ BadArguments /\ ~flags.strictMode
    /\ exitCode = 1

\* the scan ran to its end
Completed == pc = "done" /\ ~BadArguments /\ ~BadInput /\ ~BadFixList

\* C22 as stated: under the profile strict a completed scan whose final
\* report has a finding ends with a non-zero exit code.
C22_StrictProfileFailsOnAnyFinding ==
    (Completed /\ flags.profileName = "strict" /\ findings # <<>>) => exitCode # 0

\* C22, what holds: under the profile strict the exit code is non-zero
\* exactly when --strict is also given and the report has a blocking
\* finding; the profile alone never fails the scan.
C22_StrictProfileFailsOnlyWithFlag ==
    (Completed /\ flags.profileName = "strict") =>
        (exitCode # 0 <=> flags.strictMode /\ HasBlocking)

\* C22 witness: profile strict, a report with a blocking finding, exit code 0
C22_Witness ==
    /\ Completed
    /\ flags.profileName = "strict" /\ profile.Name = "strict"
    /\ HasBlocking
    /\ exitCode = 0

\* C23 as stated: no command is ever run.
C23_NoProcessSpawned == proj.spawned = {}

\* C23, what holds: commands are run only by the tool check, that is with
\* --check-tools and a config that has tool_versions; and then every
\* installed tool's command has been run once the check is over.
C23_ProcessesOnlyForToolCheck ==
    LET checks == flags.checkToolVersions /\ ~cfg.nil /\ ~cfg.ToolVersions.nil IN
    /\ proj.spawned # {} => checks
    /\ (checks /\ (pc \in {"custom", "required", "ignore", "profile", "summary",
                           "fixlist", "exit"} \/ Completed))
          => "docker" \in proj.spawned

\* C23 witness: a scan with --check-tools and a docker minimum has run docker
C23_Witness ==
    /\ pc = "custom"
    /\ flags.checkToolVersions
    /\ opts.Config.ToolVersions.Docker # <<>>
    /\ "docker" \in proj.spawned

\* the states in which a check of CheckWithOptions is about to run
InChecks ==
    pc \in {"composeEnv", "envExample", "dependsOn", "build", "lang", "readme",
            "source", "tools", "custom", "required", "ignore"}

\* C24 as stated: no step of the scan changes the files or their contents,
\* and no check changes the artifacts or the config.
C24_NoFileWritten ==
    [][/\ proj'.tree = proj.tree /\ proj'.text = proj.text
       /\ InChecks => artifacts' = artifacts /\ opts' = opts /\ cfg' = cfg]_vars

\* C24, what holds: without --fix-list no step changes the files; with it
\* only the step after CalculateSummary does, and only the named file; no
\* check changes the artifacts or the config.
C24_OnlyTheFixListWritten ==
    [][/\ (flags.generateFixList = <<>> \/ pc # "fixlist") =>
             proj'.tree = proj.tree /\ proj'.text = proj.text
       /\ \A path \in DOMAIN proj.tree :
             path # flags.generateFixList =>
                /\ path \in DOMAIN proj'.tree /\ proj'.tree[path] = proj.tree[path]
       /\ \A name \in DOMAIN proj.text :
             <<name>> # flags.generateFixList =>
                /\ name \in DOMAIN proj'.text /\ proj'.text[name] = proj.text[name]
       /\ InChecks => artifacts' = artifacts /\ opts' = opts /\ cfg' = cfg]_vars

\* C24 witness: --fix-list .env.example has replaced the example's contents
\* by the checklist
C24_Witness ==
    /\ pc = "exit"
    /\ flags.generateFixList = <<".env.example">>
    /\ proj.text[".env.example"] = Checklist(findings)
    /\ proj.text[".env.example"] # <<<<"A", "=">>>>


-----------------------------------------------------------------------------
(* checkSourceCodeEnvRefs: two source files, the first one scanned, below a
   skipped directory, of another extension, or unreadable; X defined in .env
   or not; a profile with or without source scanning *)

\* the most lines of the first source file
MaxSourceLines == 2

Access(pat, name) == [pat |-> pat, name |-> name]

\* lines as written left to right
SourceLinePool ==
    {<<Access(1, "X")>>,
     <<Access(2, "Y"), Access(1, "X")>>,
     <<Access(1, "HOME"), Access(2, "X"), Access(2, "Y")>>,
     <<>>}

FirstSources ==
    {[path |-> f[1], ext |-> f[2], inSkippedDir |-> f[3], readable |-> f[4],
      lines |-> l] :
        f \in {<<"a.js", ".js", FALSE, TRUE>>, <<"bin/a.js", ".js", TRUE, TRUE>>,
               <<"a.txt", ".txt", FALSE, TRUE>>, <<"a.js", ".js", FALSE, FALSE>>},
        l \in ListsUpTo(SourceLinePool, MaxSourceLines)}

SecondSources ==
    {[path |-> "z.go", ext |-> ".go", inSkippedDir |-> FALSE, readable |-> TRUE,
      lines |-> l] :
        l \in {<<>>, <<<<Access(2, "Y")>>>>,
               <<<<>>, <<Access(2, "X"), Access(2, "Z"), Access(2, "X")>>>>}}

SourceProjects ==
    {[WithOptionalText(EmptyProj, env, ".env", <<<<"X", "=", "1">>>>)
         EXCEPT !.sources = <<f1, f2>>] :
        env \in BOOLEAN, f1 \in FirstSources, f2 \in SecondSources}

InitSource ==
    \E p \in SourceProjects, n \in {"default", "full"} :
        Start(p, [DefaultFlags EXCEPT !.profileName = n])

SpecSource == InitSource /\ [][NextConfigured]_vars

\* the files the walk scans
Scanned ==
    {i \in 1..Len(proj.sources) :
        /\ ~proj.sources[i].inSkippedDir
        /\ proj.sources[i].ext \in {".go", ".js", ".ts", ".jsx", ".tsx", ".py",
                                    ".java", ".cs", ".rs"}
        /\ proj.sources[i].readable}

\* name v is accessed on line n of file i
AccessedAt(v, i, n) ==
    /\ n \in 1..Len(proj.sources[i].lines)
    /\ \E k \in 1..Len(proj.sources[i].lines[n]) :
          proj.sources[i].lines[n][k].name = v

\* the places of v in the scanned files
PlacesOf(v) ==
    {pl \in Scanned \X (1..(MaxSourceLines + 1)) : AccessedAt(v, pl[1], pl[2])}

\* the first of a set of places in the order of the walk
FirstPlace(S) ==
    CHOOSE pl \in S : \A q \in S : pl[1] < q[1] \/ (pl[1] = q[1] /\ pl[2] <= q[2])

SourceNamePool == {"X", "Y", "Z", "HOME"}

\* the SRC001 findings about name v
Src001(v) ==
    {k \in 1..Len(findings) :
        findings[k].Code = "SRC001" /\ findings[k].Title = <<v>>}

\* C25: after the source check, without source scanning in the profile
\* there is no SRC001; with it every name that is accessed in a scanned
\* file, is defined in no found environment file and is not standard has
\* exactly one SRC001, a warning at the file and line of its first
\* occurrence in the order of the walk, and every other name has none.
C25_OneSrc001PerName ==
    pc = "tools" =>
        /\ ~profile.EnableSourceScanning =>
              \A k \in 1..Len(findings) : findings[k].Code # "SRC001"
        /\ profile.EnableSourceScanning =>
              \A v \in SourceNamePool :
                  IF PlacesOf(v) # {} /\ ~DefinedInSomeEnvFile(v)
                     /\ v \notin {"HOME", "USER", "PATH", "PWD", "SHELL", "TERM",
                                  "HOSTNAME", "UID", "GID"}
                  THEN /\ Cardinality(Src001(v)) = 1
                       /\ \A k \in Src001(v) :
                             /\ findings[k].Severity = SeverityWarning
                             /\ findings[k].Files =
                                   <<[File |-> proj.sources[FirstPlace(PlacesOf(v))[1]].path,
                                      Line |-> FirstPlace(PlacesOf(v))[2]]>>
                  ELSE Src001(v) = {}

\* C25 witness: Y is accessed on two lines of a.js and again in z.go, and is
\* reported once, on line 1 of a.js
C25_Witness ==
    /\ pc = "tools"
    /\ profile.EnableSourceScanning
    /\ Cardinality(PlacesOf("Y")) = 3
    /\ Cardinality(Src001("Y")) = 1
    /\ \A k \in Src001("Y") : findings[k].Files = <<[File |-> "a.js", Line |-> 1]>>


-----------------------------------------------------------------------------
(* cmd/init_config.go: runInitConfig, in a directory where .devcheck.yaml is
   absent, a directory, or a file (read-only or not) with some contents *)

ConfigPath == <<".devcheck.yaml">>

\* config.ExampleConfig(), without its comment and blank lines
ExampleConfig ==
    <<<<"custom_rules:">>, <<"  - id: ", "DB_REQUIRED">>,
      <<"    pattern: ", "^DATABASE_">>, <<"    required: ", "true">>,
      <<"    severity: ", "blocking">>,
      <<"tool_versions:">>, <<"  docker: ", "20.10.0">>,
      <<"  docker_compose: ", "2.0.0">>,
      <<"ignore_patterns:">>, <<"  - ", "*.backup">>, <<"  - ", "deprecated/">>,
      <<"ignore_codes:">>, <<"  - ", "HINT001">>,
      <<"required_env_vars:">>, <<"  - ", "NODE_ENV">>, <<"  - ", "DATABASE_URL">>,
      <<"build_contexts:">>, <<"  api: ", "./api">>, <<"  web: ", "./frontend">>>>

\* what config.Load reads from the example
ExampleConfigValue ==
    [nil |-> FALSE,
     CustomRules |-> <<[ID |-> "DB_REQUIRED",
                        Pattern |-> RulePattern(TRUE, {"DATABASE_URL", "DATABASE_HOST"}),
                        Required |-> TRUE, Severity |-> "blocking"]>>,
     ToolVersions |-> [NoToolVersions EXCEPT
                          !.nil = FALSE,
                          !.Docker = <<"2", "0", ".", "1", "0", ".", "0">>,
                          !.DockerCompose = <<"2", ".", "0", ".", "0">>],
     IgnoreCodes |-> <<"HINT001">>,
     RequiredEnvVars |-> <<"NODE_ENV", "DATABASE_URL">>]

\* (variant: the existing file is not looked for)
RefusesNever(p, force) == FALSE

\* the first test of runInitConfig: os.Stat succeeds and --force is not given
Refuses(p, force) == Stat(p, ConfigPath).err = "" /\ ~force

\* runInitConfig, and Execute's os.Exit(1) when it returns an error
RunInitConfig ==
    /\ pc = "start" /\ flags.entry = "init-config"
    /\ IF Refuses(proj, flags.force)
       THEN Done(1) /\ UNCHANGED proj
       ELSE IF CanCreate(proj, ConfigPath)
       THEN /\ proj' = [Create(proj, ConfigPath, ExampleConfig) EXCEPT
                           !.config = ValidConfig(ExampleConfigValue)]
            /\ Done(0)
       ELSE Done(1) /\ UNCHANGED proj
    /\ UNCHANGED <<profile, flags, cfg, artifacts, opts, findings, rawFindings,
                   returned, summary>>

\* the most lines of an existing config file
MaxConfigLines == 3

ConfigLinePool ==
    {<<"ignore_codes:">>, <<"  - ", "ENV001">>, <<"{">>}

InitConfigProjects ==
    {EmptyProj, WithEntry(EmptyProj, ConfigPath, "dir")}
    \cup {[WithText(EmptyProj, ".devcheck.yaml", l) EXCEPT
              !.readonly = IF ro THEN {".devcheck.yaml"} ELSE {},
              !.config = IF l = <<<<"ignore_codes:">>, <<"  - ", "ENV001">>>>
                         THEN ValidConfig([DefaultConfig EXCEPT
                                              !.IgnoreCodes = <<"ENV001">>])
                         ELSE IF \E i \in 1..Len(l) : l[i] = <<"{">>
                         THEN [state |-> "invalid", value |-> DefaultConfig]
                         ELSE ValidConfig(DefaultConfig)] :
            l \in ListsUpTo(ConfigLinePool, MaxConfigLines), ro \in BOOLEAN}

InitInitConfig ==
    \E p \in InitConfigProjects, force \in BOOLEAN :
        Start(p, [entry |-> "init-config", force |-> force])

NextInitConfig == RunInitConfig

SpecInitConfig == InitInitConfig /\ [][NextInitConfig]_vars

\* .devcheck.yaml is there, as a file or a directory
ConfigExists == ConfigPath \in DOMAIN proj.tree

\* C26: a run of init-config in a directory where .devcheck.yaml exists,
\* without --force, ends with an error and leaves every file and its
\* contents as they were; whenever the run changes a file, the file did not
\* exist or --force was given, and what is written to .devcheck.yaml is the
\* example configuration.
C26_NoOverwriteWithoutForce ==
    [][/\ (ConfigExists /\ ~flags.force) =>
             /\ exitCode' # 0
             /\ proj'.tree = proj.tree /\ proj'.text = proj.text
       /\ (proj'.tree # proj.tree \/ proj'.text # proj.text) =>
             /\ ~ConfigExists \/ flags.force
             /\ exitCode' = 0
             /\ proj'.text[".devcheck.yaml"] = ExampleConfig
             /\ \A name \in DOMAIN proj.text :
                   name # ".devcheck.yaml" => proj'.text[name] = proj.text[name]]_vars

\* C26 witness: init-config without --force has ended with an error and the
\* existing two-line file is as it was
C26_Witness ==
    /\ pc = "done" /\ flags.entry = "init-config"
    /\ ~flags.force
    /\ exitCode = 1
    /\ ConfigExists
    /\ proj.tree[ConfigPath] = "file"
    /\ proj.text[".devcheck.yaml"] = <<<<"ignore_codes:">>, <<"  - ", "ENV001">>>>


-----------------------------------------------------------------------------
(* CheckWithOptions called twice on the same files, artifacts and options:
   an example with one or two keys that .env lacks, one or two services
   with a missing dependency or build context, and none, one or two
   required tools that are not installed *)

\* a second CheckWithOptions(absPath, artifacts, opts) once the first one
\* has returned; rawFindings keeps what the checks of the first run produced
CheckWithOptionsAgain ==
    /\ pc = "profile" /\ flags.entry = "scan"
    /\ flags' = [flags EXCEPT !.entry = "second run"]
    /\ findings' = <<>>
    /\ pc' = "composeEnv"
    /\ UNCHANGED <<profile, proj, cfg, artifacts, opts, rawFindings, returned,
                   summary, exitCode>>

NextTwice == NextConfigured \/ FilterIgnored \/ CheckWithOptionsAgain

TwiceExamples ==
    {<<<<"A", "=">>>>, <<<<"A", "=">>, <<"B", "=">>>>, <<<<"B", "=">>, <<"C", "=">>>>}

TwiceServices ==
    {"web" :> Service(ListOf(<<"ghost">>), NoBuild),
     ("web" :> Service(ListOf(<<"ghost">>), NoBuild))
        @@ ("db" :> Service(ListOf(<<"ghost">>), NoBuild)),
     ("web" :> Service(NoNode, BuildString(<<"gone">>)))
        @@ ("db" :> Service(NoNode, BuildString(<<"lost">>)))}

TwiceToolVersions ==
    {NoToolVersions,
     [NoToolVersions EXCEPT !.nil = FALSE, !.Docker = <<"2", "4">>],
     [NoToolVersions EXCEPT !.nil = FALSE, !.Docker = <<"2", "4">>,
                            !.Go = <<"1", ".", "2", "0">>]}

TwiceProjects ==
    {LET p0 == WithText(EmptyProj, ".env", <<<<"A", "=", "1">>>>)
         p1 == WithText(p0, ".env.example", ex)
         p2 == WithCompose(p1, "compose.yaml", GoodCompose, sv)
     IN  [p2 EXCEPT !.config = ValidConfig([DefaultConfig EXCEPT !.ToolVersions = tv])] :
        ex \in TwiceExamples, sv \in TwiceServices, tv \in TwiceToolVersions}

InitTwice ==
    \E p \in TwiceProjects :
        Start(p, [DefaultFlags EXCEPT !.checkToolVersions = TRUE])

SpecTwice == InitTwice /\ [][NextTwice]_vars

\* the checks of the second run are over
SecondRunChecked == pc = "ignore" /\ flags.entry = "second run"

\* how often finding f is in the list
TimesIn(f, fl) == Cardinality({k \in 1..Len(fl) : fl[k] = f})

\* the codes of the checks that iterate over a map
MapCodes == {"ENV002", "CMP001", "BUILD001", "BUILD002", "TOOL001", "TOOL002"}

\* C27 as stated: the checks of the second run produce the sequence the
\* checks of the first run produced.
C27_SameSequenceTwice ==
    SecondRunChecked => findings = rawFindings

\* C27, what holds: the two runs produce the same findings the same number
\* of times, the findings of the checks that iterate over no map in the
\* same order, and each check's findings in the same stretch of the list.
C27_SameFindingsTwice ==
    SecondRunChecked =>
        /\ Len(findings) = Len(rawFindings)
        /\ \A k \in 1..Len(findings) :
              /\ TimesIn(findings[k], findings) = TimesIn(findings[k], rawFindings)
              /\ findings[k].Code = rawFindings[k].Code
        /\ SelectSeq(findings, LAMBDA f : f.Code \notin MapCodes)
              = SelectSeq(rawFindings, LAMBDA f : f.Code \notin MapCodes)

\* C27 witness: the second run has reported the two missing keys of the
\* example in the other order
C27_Witness ==
    /\ SecondRunChecked
    /\ \E i, j \in 1..Len(findings) :
          /\ i < j
          /\ findings[i].Code = "ENV002" /\ findings[j].Code = "ENV002"
          /\ findings[i] = rawFindings[j] /\ findings[j] = rawFindings[i]
          /\ findings[i] # findings[j]


-----------------------------------------------------------------------------
(* checkBuildContexts, BUILD001 next to BUILD002: services whose build is a
   string or an object, with a dockerfile inside the context or reached
   through `..`, with no context or an empty one; app absent, a directory,
   or a directory with its Dockerfile; a Dockerfile in the project or none *)

PairBuildValues ==
    {BuildString(<<"app">>),
     BuildObject(<<"app">>, <<"Dockerfile.dev">>),
     BuildObject(<<"app">>, <<"..", "Dockerfile">>),
     BuildObject(<<>>, <<"Dockerfile">>),
     [BuildObject(<<>>, <<"Dockerfile.dev">>) EXCEPT !.hasContext = FALSE]}

PairTrees ==
    {app @@ top :
        app \in {<<>>, <<"app">> :> "dir",
                 (<<"app">> :> "dir") @@ (<<"app", "Dockerfile">> :> "file")},
        top \in {<<>>, <<"Dockerfile">> :> "file"}}

PairServices ==
    {[n \in {ServiceNames[i] : i \in 1..Len(b)} |->
         Service(NoNode, b[CHOOSE i \in 1..Len(b) : ServiceNames[i] = n])] :
        b \in ListsUpTo(PairBuildValues, MaxServices) \ {<<>>}}

PairProjects ==
    {[WithCompose(EmptyProj, "docker-compose.yml", <<>>, svcs) EXCEPT !.tree = t @@ @] :
        svcs \in PairServices, t \in PairTrees}

InitBuildPair ==
    \E p \in PairProjects : Start(p, [DefaultFlags EXCEPT !.entry = "Check"])

SpecBuildPair == InitBuildPair /\ [][NextBuild]_vars

\* the build directive of the service a finding is about
BuildOf(k) == proj.yaml["docker-compose.yml"].services[findings[k].Title[1]].Build

\* finding k is a BUILD002 directly after the BUILD001 of the same service
AfterItsBuild001(k) ==
    /\ k > 1
    /\ findings[k - 1].Code = "BUILD001"
    /\ findings[k - 1].Title = findings[k].Title

\* no finding is about a service whose build names no context
NoneWithoutContext ==
    \A k \in 1..Len(findings) :
        (BuildOf(k).type = "string" \/ BuildOf(k).hasContext) /\ BuildOf(k).context # <<>>

\* C28 as stated: after checkBuildContexts every BUILD002 stands directly
\* after the BUILD001 of the same service, and a build with no context or an
\* empty one has no finding.
C28_Build002AfterBuild001 ==
    pc = "lang" =>
        /\ \A k \in 1..Len(findings) : findings[k].Code = "BUILD002" => AfterItsBuild001(k)
        /\ NoneWithoutContext

\* C28, what holds: a BUILD002 stands directly after the BUILD001 of the
\* same service unless the dockerfile path leaves the context through `..`;
\* a build with no context or an empty one has no finding.
C28_Build002AfterBuild001Inside ==
    pc = "lang" =>
        /\ \A k \in 1..Len(findings) :
              (findings[k].Code = "BUILD002"
               /\ \A i \in 1..Len(BuildOf(k).dockerfile) : BuildOf(k).dockerfile[i] # "..")
                  => AfterItsBuild001(k)
        /\ NoneWithoutContext

\* C28 witness: the context app is missing, the dockerfile ../Dockerfile is
\* the project's Dockerfile, and the only finding is a BUILD002
C28_Witness ==
    /\ pc = "lang"
    /\ <<"app">> \notin DOMAIN proj.tree
    /\ <<"Dockerfile">> \in DOMAIN proj.tree
    /\ Len(findings) = 1
    /\ findings[1].Code = "BUILD002"
    /\ BuildOf(1).dockerfile = <<"..", "Dockerfile">>


-----------------------------------------------------------------------------
(* Both filters after any list of findings: the registry profiles and some
   others, a config that ignores no code, one code or two *)

\* the checks of CheckWithOptions producing any list of findings
ChecksProduceAny ==
    /\ pc = "composeEnv"
    /\ \E l \in ListsUpTo(FilterPool, MaxFindings) : findings' = l
    /\ pc' = "ignore"
    /\ UNCHANGED <<profile, flags, proj, cfg, artifacts, opts, rawFindings,
                   returned, summary, exitCode>>

TwiceProfiles ==
    {BuiltinProfiles[n] : n \in DOMAIN BuiltinProfiles}
    \cup {[Name |-> "", MinSeverity |-> m, EnabledChecks |-> e,
           DisabledChecks |-> d, EnableSourceScanning |-> FALSE,
           IncludeInfo |-> i] :
             m \in {"", SeverityWarning}, e \in {<<>>, <<"ENV001">>},
             d \in {<<>>, <<"LANG001">>}, i \in BOOLEAN}

InitIdempotent ==
    /\ pc = "options"
    /\ proj = EmptyProj
    /\ flags = DefaultFlags
    /\ profile \in TwiceProfiles
    /\ cfg \in {[DefaultConfig EXCEPT !.IgnoreCodes = ig] :
                   ig \in {<<>>, <<"ENV001">>, <<"LANG001", "ENV001">>}}
    /\ artifacts = NoArtifacts
    /\ opts = NoOptions
    /\ findings = <<>>
    /\ rawFindings = <<>>
    /\ returned = <<>>
    /\ summary = NoSummary
    /\ exitCode = 0

NextIdempotent == BuildOptions \/ ChecksProduceAny \/ FilterIgnored \/ ProfileFilter

SpecIdempotent == InitIdempotent /\ [][NextIdempotent]_vars

\* C29: the list the ignore-code filter has returned is left as it is by
\* the ignore-code filter with the same config, and the list the profile
\* filter has returned is left as it is by the same profile's filter.
C29_FiltersIdempotent ==
    /\ pc = "profile" => filterIgnoredFindings(findings, opts.Config) = findings
    /\ pc = "summary" => FilterFindings(profile, findings) = findings

\* C29 witness: each filter has dropped a finding and the report is not
\* empty
C29_Witness ==
    /\ pc = "summary"
    /\ Len(rawFindings) = MaxFindings
    /\ Len(returned) < Len(rawFindings)
    /\ Len(findings) < Len(returned)
    /\ findings # <<>>


-----------------------------------------------------------------------------
(* The tool check when docker is in PATH and its version could not be read
   (go likewise, or missing), against minimums that are zero in their first
   three segments or not *)

\* Available with an empty Version: what detectToolWithArgs returns when the
\* command fails or its output does not match
VersionUnknown == Tool(TRUE, <<>>)

UnknownMinimums ==
    PlainMinimums \cup DecoratedVersions \cup {<<"v", "0">>, <<"x">>, <<"0", ".", "x">>}

UnknownProjects ==
    {[EmptyProj EXCEPT
         !.tools = [NoTools EXCEPT !["docker"] = VersionUnknown, !["go"] = g],
         !.config = ValidConfig([DefaultConfig EXCEPT
                        !.ToolVersions = [NoToolVersions EXCEPT
                                             !.nil = FALSE, !.Docker = v2, !.Go = v3]])] :
        g \in {VersionUnknown, Tool(FALSE, <<>>)},
        v2 \in UnknownMinimums, v3 \in {<<>>, <<"1", ".", "2", "0">>}}

InitUnknown ==
    \E p \in UnknownProjects :
        /\ pc = "tools"
        /\ proj = p
        /\ flags = [DefaultFlags EXCEPT !.checkToolVersions = TRUE]
        /\ profile = BuiltinProfiles["default"]
        /\ cfg = p.config.value
        /\ artifacts = Detect(p, "", <<>>)
        /\ opts = [EnableSourceScanning |-> FALSE, Config |-> p.config.value,
                   CheckToolVersions |-> TRUE]
        /\ findings = <<>>
        /\ rawFindings = <<>>
        /\ returned = <<>>
        /\ summary = NoSummary
        /\ exitCode = 0

SpecUnknown == InitUnknown /\ [][NextVersions]_vars

\* the integer a segment counts as: its digits when the other characters
\* stand only around them, 0 otherwise
CountsAs(seg) == IF HasInnerNonDigit(seg) THEN 0 ELSE Number(DigitsOnly(seg))

\* the minimum is above 0.0.0: one of its first three segments is not zero
AboveZero(min) ==
    \E i \in 1..3 :
        /\ i <= Len(DotSegments(min, <<>>))
        /\ CountsAs(DotSegments(min, <<>>)[i]) > 0

\* C30: after the tool check, a tool that is available with an empty version
\* and has a configured minimum never has a TOOL001; it has exactly one
\* TOOL002, a warning whose current version is empty, when the minimum is
\* above 0.0.0 in its first three segments, and no finding when it is not.
C30_UnknownVersionIsZero ==
    pc = "custom" =>
        \A t \in {"docker", "go"} :
            LET min == MinimumOf(opts.Config.ToolVersions, t) IN
            (proj.tools[t] = VersionUnknown /\ min # <<>>) =>
                /\ ToolReports("TOOL001", t) = {}
                /\ Cardinality(ToolReports("TOOL002", t)) = IF AboveZero(min) THEN 1 ELSE 0
                /\ \A k \in ToolReports("TOOL002", t) :
                      /\ findings[k].Severity = SeverityWarning
                      /\ findings[k].Title[2] = ""

\* C30 witness: docker's version is unknown and its minimum 0.0.0.9 is zero
\* in the first three segments: no finding for docker, while go, unknown
\* too, is below its minimum 1.20
C30_Witness ==
    /\ pc = "custom"
    /\ proj.tools["docker"] = VersionUnknown
    /\ proj.tools["go"] = VersionUnknown
    /\ opts.Config.ToolVersions.Docker = <<"0", ".", "0", ".", "0", ".", "9">>
    /\ ToolReports("TOOL002", "docker") = {}
    /\ Cardinality(ToolReports("TOOL002", "go")) = 1
    /\ findings[1].Title[2] = ""

====
